---- MODULE Spec2Model ----
(***************************************************************************)
(* Model of the manifest hash-resolution engine of sfsu / sprinkles:       *)
(*   crates/sprinkles/src/hash.rs        HashType, HashMode, Hash           *)
(*   crates/manifest-hash/src/formats/text.rs   parse_text                  *)
(* Strings are sequences of one-character strings, so that lengths,        *)
(* regular-expression matching, base64 decoding and lower-casing are        *)
(* computed as the code computes them.                                      *)
(***************************************************************************)
EXTENDS Integers, Sequences, FiniteSets, TLC

VARIABLES
    pc,            \* position of the running call
    manifest,      \* the Manifest handed to get_for_app / from_manifest
    hash_mode,     \* get_for_app: let mut hash_mode (hash.rs:272)
    manifest_url,  \* get_for_app: let manifest_url (hash.rs:275)
    url,           \* get_for_app: let url (hash.rs:290)
    source,        \* get_for_app: let source, the HTTP response (hash.rs:361)
    requests,      \* number of HTTP requests sent by the running call
    result,        \* what the running call returned
    value,         \* HashType::try_from: the argument
    text_in,       \* parse_text / from_text: the arguments (source, regex)
    parsed,        \* parse_text: the returned Result<Option<String>, TextError>;
                   \* get_for_app: what parse_json / parse_xml made of the body
    compute_in,    \* Hash::compute: the arguments (the reader's bytes, hash_type)
    reader,        \* Hash::compute: the bytes the reader has not delivered yet
    hasher,        \* compute_hash: let mut hasher (hash.rs:394)
    download,      \* download command: the joined tasks and the state of the checking loop
    suspended,     \* the locals of a get_for_app invocation that is not running now
    cleanup        \* cleanup command: the flags, the app, the files on disk and the loops of cleanup_app

vars == <<pc, manifest, hash_mode, manifest_url, url, source, requests, result,
          value, text_in, parsed, compute_in, reader, hasher, download, suspended, cleanup>>

(***************************************************************************)
(* Strings                                                                 *)
(***************************************************************************)
\* s repeated n times
Rep(s, n) == [i \in 1..(n * Len(s)) |-> s[((i - 1) % Len(s)) + 1]]

UpperSeq == <<"A","B","C","D","E","F","G","H","I","J","K","L","M",
              "N","O","P","Q","R","S","T","U","V","W","X","Y","Z">>
LowerSeq == <<"a","b","c","d","e","f","g","h","i","j","k","l","m",
              "n","o","p","q","r","s","t","u","v","w","x","y","z">>

\* char::to_lowercase on the ASCII range
LowerChar(c) ==
    IF \E i \in 1..26 : UpperSeq[i] = c
    THEN LowerSeq[CHOOSE i \in 1..26 : UpperSeq[i] = c]
    ELSE c

\* str::to_lowercase
to_lowercase(s) == [i \in 1..Len(s) |-> LowerChar(s[i])]

\* str::replace(' ', "")
strip_spaces(s) == SelectSeq(s, LAMBDA c : c # " ")

StartsWithAt(s, p, lit) ==
    /\ p + Len(lit) - 1 <= Len(s)
    /\ \A i \in 1..Len(lit) : s[p + i - 1] = lit[i]

(***************************************************************************)
(* Regular expressions (the regex crate), as far as the patterns of the    *)
(* program need them: a pattern is a sequence of items; an item is a       *)
(* repeated character class, a literal string, an alternation of           *)
(* sub-patterns, or an anchor. Matching is leftmost-first with             *)
(* backtracking, as the crate defines it.                                  *)
(***************************************************************************)
In(set) == [neg |-> FALSE, set |-> set]
NotIn(set) == [neg |-> TRUE, set |-> set]
InClass(c, cls) == IF cls.neg THEN c \notin cls.set ELSE c \in cls.set

\* the character classes of the patterns of the program
Class ==
    LET digits == {"0","1","2","3","4","5","6","7","8","9"}
        letters == {UpperSeq[i] : i \in 1..26} \cup {LowerSeq[i] : i \in 1..26}
    IN [hex |-> In(digits \cup {"a","b","c","d","e","f","A","B","C","D","E","F"}),
                                                         \* [a-fA-F0-9]
        digit |-> In(digits),                            \* \d
        letter |-> In(letters),                          \* [a-zA-Z]
        any |-> NotIn({"\n"}),                           \* .
        blank |-> In({" ", "\t"}),                       \* [\x20\t]
        space |-> In({" ", "\t", "\n", "\r"}),           \* \s
        base64 |-> In(letters \cup digits \cup {"+", "/"}),  \* [A-Za-z0-9+\/]
        base64_pad |-> In(letters \cup digits \cup {"+", "/", "="})]
                                                         \* [a-zA-Z0-9+\/=]

\* hi = -1 stands for an unbounded repetition; a lazy item (x*?) takes the
\* fewest repetitions first. A "var" item is a $name placeholder of a template
\* and a "bad" item is syntax the regex crate refuses to compile.
Item(cls, lo, hi, cap) ==
    [t |-> "cls", cls |-> cls, lo |-> lo, hi |-> hi, cap |-> cap, subs |-> <<>>,
     lazy |-> FALSE, name |-> "", str |-> <<>>]
Lazy(cls, lo, hi, cap) ==
    [t |-> "cls", cls |-> cls, lo |-> lo, hi |-> hi, cap |-> cap, subs |-> <<>>,
     lazy |-> TRUE, name |-> "", str |-> <<>>]
Other(t, subs, name, str) ==
    [t |-> t, cls |-> In({}), lo |-> 0, hi |-> 0, cap |-> "", subs |-> subs,
     lazy |-> FALSE, name |-> name, str |-> str]
Alt(subs) == Other("alt", subs, "", <<>>)
Bol == Other("bol", <<>>, "", <<>>)
Eol == Other("eol", <<>>, "", <<>>)
Var(name) == Other("var", <<>>, name, <<>>)
Bad == Other("bad", <<>>, "", <<>>)
\* the characters of str, each standing for itself
Lit(str) == <<Other("lit", <<>>, "", str)>>
Star(cls, cap) == Item(cls, 0, -1, cap)
Plus(cls, cap) == Item(cls, 1, -1, cap)
Opt(sub) == Alt(<<sub, <<>>>>)

NoMatch == [ok |-> FALSE, end |-> 0, caps |-> <<>>]

\* the longest run of characters of cls from position p, at most limit long
Run(s, p, cls, limit) ==
    LET last == IF p + limit - 1 < Len(s) THEN p + limit - 1 ELSE Len(s)
        stops == {j \in p..last : ~InClass(s[j], cls)}
    IN IF stops = {} THEN last - p + 1
       ELSE (CHOOSE j \in stops : \A k \in stops : j <= k) - p

\* the least and the greatest element of a non-empty set of numbers
SetMin(S) == CHOOSE x \in S : \A y \in S : x <= y
SetMax(S) == CHOOSE x \in S : \A y \in S : x >= y

RECURSIVE MatchAt(_, _, _)
RECURSIVE Counts(_, _, _, _, _)
RECURSIVE TakeCount(_, _, _, _, _)
RECURSIVE PickCount(_, _, _, _, _)
RECURSIVE TryCount(_, _, _, _, _)
RECURSIVE TryAlt(_, _, _, _, _)
RECURSIVE OrNextAlt(_, _, _, _, _, _)

\* the match r of the rest, with what item e captured in its k characters
Captured(e, s, p, k, r) ==
    IF ~r.ok THEN NoMatch
    ELSE [ok |-> TRUE, end |-> r.end,
          caps |-> IF e.cap = "" THEN r.caps
                   ELSE <<[name |-> e.cap, text |-> SubSeq(s, p, p + k - 1)]>> \o r.caps]

\* the repetition counts of item e (e.lo <= k <= run) after which rest matches
Counts(e, rest, s, p, run) ==
    IF run = e.lo THEN {run}
    ELSE IF rest = <<>> THEN e.lo..run
    ELSE {k \in e.lo..run : MatchAt(rest, s, p + k).ok}

TakeCount(e, rest, s, p, k) == Captured(e, s, p, k, MatchAt(rest, s, p + k))

\* a greedy item takes the largest count, a lazy item the smallest
PickCount(e, rest, s, p, good) ==
    IF good = {} THEN NoMatch
    ELSE TakeCount(e, rest, s, p, IF e.lazy THEN SetMin(good) ELSE SetMax(good))

\* item e repeated, then rest
TryCount(e, rest, s, p, run) ==
    IF run < e.lo THEN NoMatch
    ELSE PickCount(e, rest, s, p, Counts(e, rest, s, p, run))

OrNextAlt(r, subs, i, rest, s, p) ==
    IF r.ok THEN r ELSE TryAlt(subs, i + 1, rest, s, p)

\* the alternatives from the i-th on, in order
TryAlt(subs, i, rest, s, p) ==
    IF i > Len(subs) THEN NoMatch
    ELSE OrNextAlt(MatchAt(subs[i] \o rest, s, p), subs, i, rest, s, p)

\* the match of pattern items that starts at position p of s
MatchAt(items, s, p) ==
    IF items = <<>> THEN [ok |-> TRUE, end |-> p, caps |-> <<>>]
    ELSE CASE items[1].t = "cls" ->
                TryCount(items[1], Tail(items), s, p,
                         Run(s, p, items[1].cls,
                             IF items[1].hi < 0 THEN Len(s) ELSE items[1].hi))
           [] items[1].t = "lit" ->
                IF StartsWithAt(s, p, items[1].str)
                THEN MatchAt(Tail(items), s, p + Len(items[1].str))
                ELSE NoMatch
           [] items[1].t = "alt" -> TryAlt(items[1].subs, 1, Tail(items), s, p)
           [] items[1].t = "bol" -> IF p = 1 THEN MatchAt(Tail(items), s, p) ELSE NoMatch
           [] items[1].t = "eol" ->
                IF p = Len(s) + 1 THEN MatchAt(Tail(items), s, p) ELSE NoMatch
           [] OTHER -> NoMatch

NoFind == [ok |-> FALSE, start |-> 0, end |-> 0, caps |-> <<>>]
Found(q, r) == [ok |-> TRUE, start |-> q, end |-> r.end, caps |-> r.caps]
FirstOf(items, s, good) == IF good = {} THEN NoFind ELSE Found(SetMin(good), MatchAt(items, s, SetMin(good)))

\* Regex::captures: the leftmost match at or after position p
SearchFrom(items, s, p) ==
    FirstOf(items, s, {q \in p..(Len(s) + 1) : MatchAt(items, s, q).ok})

captures(items, s) == SearchFrom(items, s, 1)

\* Regex::is_match
is_match(items, s) == captures(items, s).ok

\* Captures::name
CapName(m, name) ==
    IF \E i \in 1..Len(m.caps) : m.caps[i].name = name
    THEN (m.caps[CHOOSE i \in 1..Len(m.caps) : m.caps[i].name = name]).text
    ELSE <<>>

\* Regex::find_iter: the successive non-overlapping matches, leftmost first;
\* after an empty match the search resumes one character further
RECURSIVE FindFrom(_, _, _)
RECURSIVE FindNext(_, _, _)
FindNext(items, s, m) ==
    IF ~m.ok THEN <<>>
    ELSE <<m>> \o FindFrom(items, s, IF m.end = m.start THEN m.end + 1 ELSE m.end)
FindFrom(items, s, p) == FindNext(items, s, SearchFrom(items, s, p))

find_iter(items, s) == FindFrom(items, s, 1)


(***************************************************************************)
(* Hash value model (hash.rs:73-135)                                       *)
(***************************************************************************)
\* Result<Hash, HashError>; a panic of the call is the third kind
Ok(hash, hash_type) ==
    [kind |-> "Ok", hash |-> hash, hash_type |-> hash_type, err |-> ""]
Err(e) == [kind |-> "Err", hash |-> <<>>, hash_type |-> "", err |-> e]
Panic(msg) == [kind |-> "Panic", hash |-> <<>>, hash_type |-> "", err |-> msg]
Pending == [kind |-> "Pending", hash |-> <<>>, hash_type |-> "", err |-> ""]

\* #[default] of enum HashType
HashType_default == "SHA256"

\* try_from with the arms of 40 and 32 exchanged, which the code does not do
HashType_try_from_swapped(v) ==
    CASE Len(v) = 64 -> Ok(<<>>, "SHA256")
      [] Len(v) = 40 -> Ok(<<>>, "MD5")
      [] Len(v) = 32 -> Ok(<<>>, "SHA1")
      [] Len(v) = 128 -> Ok(<<>>, "SHA512")
      [] OTHER -> Err("InvalidHash")

\* impl TryFrom<&String> for HashType: the Ok value carries the type only
HashType_try_from(v) ==
    CASE Len(v) = 64 -> Ok(<<>>, "SHA256")
      [] Len(v) = 40 -> Ok(<<>>, "SHA1")
      [] Len(v) = 32 -> Ok(<<>>, "MD5")
      [] Len(v) = 128 -> Ok(<<>>, "SHA512")
      [] OTHER -> Err("InvalidHash")

(***************************************************************************)
(* Manifest model: the fields of packages::manifest the resolver reads.    *)
(***************************************************************************)
None == [some |-> FALSE, v |-> <<>>]
Some(x) == [some |-> TRUE, v |-> x]

\* manifest::HashMode, the tags of the "mode" field ("" is an absent field)
ManifestHashMode ==
    {"Download", "Extract", "Fosshub", "Json", "Metalink", "Rdf", "Sourceforge", "Xpath"}

\* HashExtractionOrArrayOfHashExtractions, and "None" for an absent hash field
HashCfg(tag, u, mode, regex, find, jsonpath, jp, xpath) ==
    [tag |-> tag, url |-> u, mode |-> mode, regex |-> regex, find |-> find,
     jsonpath |-> jsonpath, jp |-> jp, xpath |-> xpath]
NoHash == HashCfg("None", None, "", None, None, None, None, None)
HashUrlString(u) == HashCfg("Url", Some(u), "", None, None, None, None, None)
HashArray == HashCfg("Array", None, "", None, None, None, None, None)

\* HashExtractionOrArrayOfHashExtractions::as_object
as_object(hash) == IF hash.tag = "HashExtraction" THEN Some(hash) ELSE None

\* MergeDefaults for the install config: the architecture's url wins, the
\* default fills the gap
merge_default_install(m) ==
    [url |-> IF m.architecture.some /\ m.architecture.v.url.some
             THEN m.architecture.v.url
             ELSE m.install_config.url]

\* MergeDefaults for the autoupdate config: the architecture's hash wins, the
\* default fills the gap
merge_default_autoupdate(architecture, default_config) ==
    [hash |-> IF architecture.some /\ architecture.v.hash.tag # "None"
              THEN architecture.v.hash
              ELSE default_config.hash]

(***************************************************************************)
(* Substitution (ops::Substitute) over a regex template: the value of a    *)
(* known $name replaces the placeholder, as regex syntax when literal is   *)
(* FALSE and as escaped literal characters when literal is TRUE; an        *)
(* unknown name is left in place.                                          *)
(***************************************************************************)
Entry(text, items) == [text |-> text, items |-> items]

RECURSIVE substitute(_, _, _)
substitute(items, map, literal) ==
    IF items = <<>> THEN <<>>
    ELSE (IF items[1].t = "var" /\ items[1].name \in DOMAIN map
          THEN IF literal THEN Lit(map[items[1].name].text)
               ELSE map[items[1].name].items
          ELSE <<items[1]>>) \o substitute(Tail(items), map, literal)

\* Regex::new: whether the pattern compiles
regex_new(items) == \A i \in 1..Len(items) : items[i].t # "bad"

(***************************************************************************)
(* Text extractor (crates/manifest-hash/src/formats/text.rs)               *)
(***************************************************************************)
\* impl From<RegexTemplates> for &'static str, RegexTemplates::into_substitute_map
RegexTemplates ==
    [md5 |-> Entry(<<>>, <<Item(Class.hex, 32, 32, "1")>>),
     sha1 |-> Entry(<<>>, <<Item(Class.hex, 40, 40, "1")>>),
     sha256 |-> Entry(<<>>, <<Item(Class.hex, 64, 64, "1")>>),
     sha512 |-> Entry(<<>>, <<Item(Class.hex, 128, 128, "1")>>),
     checksum |-> Entry(<<>>, <<Item(Class.hex, 32, 128, "1")>>),
     base64 |-> Entry(<<>>, <<Item(Class.base64_pad, 24, 88, "1")>>)]

\* ^\s*([a-fA-F0-9]+)\s*$
default_regex ==
    <<Bol, Star(Class.space, ""), Plus(Class.hex, "1"), Star(Class.space, ""), Eol>>

\* ^(?:[A-Za-z0-9+\/]{4})*(?:[A-Za-z0-9+\/]{2}==|[A-Za-z0-9+\/]{3}=|[A-Za-z0-9+\/]{4})$
base64_regex_is_match(h) ==
    LET n == Len(h) IN
    /\ n >= 4
    /\ n % 4 = 0
    /\ \A i \in 1..(n - 2) : InClass(h[i], Class.base64)
    /\ \/ h[n - 1] = "=" /\ h[n] = "="
       \/ InClass(h[n - 1], Class.base64) /\ h[n] = "="
       \/ InClass(h[n - 1], Class.base64) /\ InClass(h[n], Class.base64)

\* ^[a-fA-F0-9]+$
invalid_base64 == <<Bol, Plus(Class.hex, ""), Eol>>

Base64Alphabet ==
    <<"A","B","C","D","E","F","G","H","I","J","K","L","M","N","O","P","Q","R",
      "S","T","U","V","W","X","Y","Z","a","b","c","d","e","f","g","h","i","j",
      "k","l","m","n","o","p","q","r","s","t","u","v","w","x","y","z","0","1",
      "2","3","4","5","6","7","8","9","+","/">>

Base64Value(c) == (CHOOSE i \in 1..64 : Base64Alphabet[i] = c) - 1

\* the bytes of the 4-character groups from position p on
RECURSIVE Base64Bytes(_, _)
Base64Bytes(h, p) ==
    IF p > Len(h) THEN <<>>
    ELSE <<(Base64Value(h[p]) * 4) + (Base64Value(h[p + 1]) \div 16)>>
         \o (IF h[p + 2] = "=" THEN <<>>
             ELSE <<((Base64Value(h[p + 1]) % 16) * 16) + (Base64Value(h[p + 2]) \div 4)>>
                  \o (IF h[p + 3] = "=" THEN <<>>
                      ELSE <<((Base64Value(h[p + 2]) % 4) * 64) + Base64Value(h[p + 3])>>
                           \o Base64Bytes(h, p + 4)))

\* BASE64_STANDARD.decode on a string base64_regex accepts: padding is
\* canonical, and the bits left over in the last symbol must be zero
TrailingBits(h, n) ==
    IF h[n - 1] = "=" THEN Base64Value(h[n - 2]) % 16
    ELSE IF h[n] = "=" THEN Base64Value(h[n - 1]) % 4
    ELSE 0
base64_decode(h) ==
    IF TrailingBits(h, Len(h)) # 0 THEN [ok |-> FALSE, bytes |-> <<>>]
    ELSE [ok |-> TRUE, bytes |-> Base64Bytes(h, 1)]

HexDigitSeq == <<"0","1","2","3","4","5","6","7","8","9","a","b","c","d","e","f">>

\* format!("{byte:x}")
format_x(byte) ==
    IF byte < 16 THEN <<HexDigitSeq[byte + 1]>>
    ELSE <<HexDigitSeq[(byte \div 16) + 1], HexDigitSeq[(byte % 16) + 1]>>

\* the concatenation of format_x(bytes[i]) for i from lo to hi
RECURSIVE HexRange(_, _, _)
HexRange(bytes, lo, hi) ==
    IF lo > hi THEN <<>>
    ELSE IF lo = hi THEN format_x(bytes[lo])
    ELSE LET mid == (lo + hi) \div 2
         IN HexRange(bytes, lo, mid) \o HexRange(bytes, mid + 1, hi)

\* decoded.into_iter().for_each(|byte| decoded_hash += &format!("{byte:x}"))
hex_of_bytes(bytes) == HexRange(bytes, 1, Len(bytes))

\* the whole text of every match (text.rs:88-91 keeps Match::as_str)
TextsOf(s, ms) == [i \in 1..Len(ms) |-> SubSeq(s, ms[i].start, ms[i].end - 1)]
match_texts(items, s) == TextsOf(s, find_iter(items, s))

\* Vec::get(1)
get_1(v) == IF Len(v) >= 2 THEN Some(v[2]) ELSE None

\* the grave accent character (U+0060), written out
Backtick == "grave"

\* ([a-fA-F0-9]{32,128})[\x20\t]+.*{grave}$basename(?:[\x20\t]+\d+)?
filename_regex_template ==
    <<Item(Class.hex, 32, 128, "1"), Plus(Class.blank, ""), Star(Class.any, "")>>
    \o Lit(<<Backtick>>) \o <<Var("basename")>>
    \o <<Opt(<<Plus(Class.blank, ""), Plus(Class.digit, "")>>)>>

\* <hash[^>]+>([a-fA-F0-9]{64})
metalink_regex ==
    Lit(<<"<","h","a","s","h">>) \o <<Plus(NotIn({">"}), "")>> \o Lit(<<">">>)
    \o <<Item(Class.hex, 64, 64, "1")>>

TextOk(opt) == [kind |-> "Ok", some |-> opt.some, v |-> opt.v, err |-> ""]
TextErr(e) == [kind |-> "Err", some |-> FALSE, v |-> <<>>, err |-> e]

\* text.rs:108-118: the hex of the decoded bytes, or the string itself
decoded_hash(hash, decoded) ==
    IF decoded.ok THEN hex_of_bytes(decoded.bytes) ELSE hash

\* the branch with a candidate of hex characters never decoded, which the
\* code does not do
convert_base64_hex_never_decoded(hash) ==
    IF base64_regex_is_match(hash) /\ ~is_match(invalid_base64, hash)
    THEN Some(decoded_hash(hash, base64_decode(hash)))
    ELSE None

\* text.rs:94-126, the branch taken when hashes.get_mut(1) is Some(hash)
convert_base64(hash) ==
    IF base64_regex_is_match(hash)
    THEN IF ~is_match(invalid_base64, hash) \/ Len(hash) \in {32, 40, 64, 128}
         THEN Some(decoded_hash(hash, base64_decode(hash)))
         ELSE None
    ELSE None

\* text.rs:143-154: the metalink pattern is tried when temp_hash is None
or_metalink(temp_hash, src) ==
    IF temp_hash.some THEN temp_hash ELSE get_1(match_texts(metalink_regex, src))

\* text.rs:127-155, the branch taken when hashes.get_mut(1) is None
fallback_hash(src, substitutions) ==
    or_metalink(
        get_1(match_texts(substitute(filename_regex_template, substitutions, TRUE), src)),
        src)

\* text.rs:88-91: .map(|hash| hash.as_str().replace(' ', ""))
stripped(found) == [i \in 1..Len(found) |-> strip_spaces(found[i])]

\* text.rs:94, 127: if let Some(hash) = hashes.get_mut(1) ... else ...
hash_of_matches(second, src, substitutions) ==
    IF second.some THEN convert_base64(second.v) ELSE fallback_hash(src, substitutions)

\* text.rs:157: Ok(hash.map(|hash| hash.to_lowercase()))
lowercased(hash) == TextOk(IF hash.some THEN Some(to_lowercase(hash.v)) ELSE None)

\* the extractor with the absence of a hash reported as an error, which the
\* code does not do
parse_with_absence_as_error(src, substitutions, substituted) ==
    IF ~regex_new(substituted) THEN TextErr("RegexError")
    ELSE LET r == lowercased(hash_of_matches(
                      get_1(stripped(match_texts(substituted, src))), src, substitutions))
         IN IF r.some THEN r ELSE TextErr("NotFound")

\* text.rs:83-157, with the substituted pattern
parse_with(src, substitutions, substituted) ==
    IF ~regex_new(substituted) THEN TextErr("RegexError")
    ELSE lowercased(hash_of_matches(get_1(stripped(match_texts(substituted, src))),
                                    src, substitutions))

\* the caller's values substituted before the fragments, which the code does
\* not do
substituted_regex_caller_first(regex, substitutions) ==
    substitute(substitute(IF regex = <<>> THEN default_regex ELSE regex,
                          substitutions, TRUE),
               RegexTemplates, FALSE)

\* text.rs:67-84: the default for an empty regex, then the two substitutions
substituted_regex(regex, substitutions) ==
    substitute(substitute(IF regex = <<>> THEN default_regex ELSE regex,
                          RegexTemplates, FALSE),
               substitutions, TRUE)

\* pub fn parse_text
parse_text(src, substitutions, regex) ==
    parse_with(src, substitutions, substituted_regex(regex, substitutions))

(***************************************************************************)
(* Hash mode resolver (hash.rs:137-242)                                    *)
(***************************************************************************)
\* Option<HashMode>; a panic of the call is the third kind
SomeMode(m, arg) == [kind |-> "Some", m |-> m, arg |-> arg]
NoMode == [kind |-> "None", m |-> "", arg |-> <<>>]
PanicMode(msg) == [kind |-> "Panic", m |-> msg, arg |-> <<>>]

\* ^(?:.*fosshub.com\/).*(?:\/|\?dwl=)(?<filename>.*)$
fosshub_regex ==
    <<Bol, Star(Class.any, "")>> \o Lit(<<"f","o","s","s","h","u","b">>)
    \o <<Item(Class.any, 1, 1, "")>> \o Lit(<<"c","o","m","/">>)
    \o <<Star(Class.any, ""), Alt(<<Lit(<<"/">>), Lit(<<"?","d","w","l","=">>)>>),
         Star(Class.any, "filename"), Eol>>

\* (?:downloads\.)?sourceforge.net\/projects?\/(?<project>[^\/]+)\/(?:files\/)?(?<file>.*)
sourceforge_regex ==
    <<Opt(Lit(<<"d","o","w","n","l","o","a","d","s",".">>))>>
    \o Lit(<<"s","o","u","r","c","e","f","o","r","g","e">>)
    \o <<Item(Class.any, 1, 1, "")>> \o Lit(<<"n","e","t","/","p","r","o","j","e","c","t">>)
    \o <<Opt(Lit(<<"s">>))>> \o Lit(<<"/">>)
    \o <<Plus(NotIn({"/"}), "project")>> \o Lit(<<"/">>)
    \o <<Opt(Lit(<<"f","i","l","e","s","/">>)), Star(Class.any, "file")>>

\* hash.rs:201-210: the mode an explicit tag decides
mode_of_tag(hash_cfg) ==
    CASE hash_cfg.mode = "Download" -> SomeMode("Download", <<>>)
      [] hash_cfg.mode = "Fosshub" -> SomeMode("Fosshub", <<>>)
      [] hash_cfg.mode = "Sourceforge" -> SomeMode("Sourceforge", <<>>)
      [] hash_cfg.mode = "Metalink" -> SomeMode("Metalink", <<>>)
      [] hash_cfg.mode = "Rdf" -> SomeMode("Rdf", <<>>)
      [] OTHER -> NoMode

\* the fields read in another order (jsonpath and jp first), which the code
\* does not do
mode_of_fields_json_first(hash_cfg) ==
    IF hash_cfg.jsonpath.some THEN SomeMode("Json", hash_cfg.jsonpath.v)
    ELSE IF hash_cfg.jp.some THEN SomeMode("Json", hash_cfg.jp.v)
    ELSE IF hash_cfg.regex.some THEN SomeMode("Extract", hash_cfg.regex.v)
    ELSE IF hash_cfg.find.some THEN SomeMode("Extract", hash_cfg.find.v)
    ELSE IF hash_cfg.xpath.some THEN SomeMode("Xpath", hash_cfg.xpath.v)
    ELSE NoMode

\* hash.rs:211-231: the mode the extraction fields decide
mode_of_fields(hash_cfg) ==
    IF hash_cfg.regex.some THEN SomeMode("Extract", hash_cfg.regex.v)
    ELSE IF hash_cfg.find.some THEN SomeMode("Extract", hash_cfg.find.v)
    ELSE IF hash_cfg.jsonpath.some THEN SomeMode("Json", hash_cfg.jsonpath.v)
    ELSE IF hash_cfg.jp.some THEN SomeMode("Json", hash_cfg.jp.v)
    ELSE IF hash_cfg.xpath.some THEN SomeMode("Xpath", hash_cfg.xpath.v)
    ELSE NoMode

\* the fields read before the tag, which the code does not do
from_autoupdate_config_fields_first(config) ==
    LET hash == config.hash IN
    IF hash.tag = "None" THEN NoMode
    ELSE IF hash.tag = "Url" THEN SomeMode("Download", <<>>)
    ELSE IF hash.tag = "HashExtraction"
    THEN LET mode == IF mode_of_fields(hash).kind = "Some"
                     THEN mode_of_fields(hash)
                     ELSE mode_of_tag(hash)
         IN IF mode.kind = "Some" THEN mode ELSE SomeMode("HashUrl", <<>>)
    ELSE PanicMode("todo: Handle array of hash extractions")

\* a default mode for a config without hash field, which the code does not give
from_autoupdate_config_default_mode(config) ==
    LET hash == config.hash IN
    IF hash.tag = "None" THEN SomeMode("HashUrl", <<>>)
    ELSE IF hash.tag = "Url" THEN SomeMode("Download", <<>>)
    ELSE IF hash.tag = "HashExtraction"
    THEN LET mode == IF mode_of_tag(hash).kind = "Some"
                     THEN mode_of_tag(hash)
                     ELSE mode_of_fields(hash)
         IN IF mode.kind = "Some" THEN mode ELSE SomeMode("HashUrl", <<>>)
    ELSE PanicMode("todo: Handle array of hash extractions")

\* HashMode::from_autoupdate_config
from_autoupdate_config(config) ==
    LET hash == config.hash IN
    IF hash.tag = "None" THEN NoMode
    ELSE IF hash.tag = "Url" THEN SomeMode("Download", <<>>)
    ELSE IF hash.tag = "HashExtraction"
    THEN LET mode == IF mode_of_tag(hash).kind = "Some"
                     THEN mode_of_tag(hash)
                     ELSE mode_of_fields(hash)
         IN IF mode.kind = "Some" THEN mode ELSE SomeMode("HashUrl", <<>>)
    ELSE PanicMode("todo: Handle array of hash extractions")

\* the autoupdate config read before the URL patterns, which the code does
\* not do
from_manifest_config_first(m) ==
    LET install_config == merge_default_install(m)
        by_config ==
            IF m.autoupdate.some
            THEN from_autoupdate_config(
                     merge_default_autoupdate(m.autoupdate.v.architecture,
                                              m.autoupdate.v.default_config))
            ELSE NoMode
    IN IF by_config.kind = "Some" THEN by_config
       ELSE IF install_config.url.some /\ is_match(fosshub_regex, install_config.url.v)
       THEN SomeMode("Fosshub", <<>>)
       ELSE IF install_config.url.some /\ is_match(sourceforge_regex, install_config.url.v)
       THEN SomeMode("Sourceforge", <<>>)
       ELSE by_config

\* HashMode::from_manifest
from_manifest(m) ==
    LET install_config == merge_default_install(m) IN
    IF install_config.url.some /\ is_match(fosshub_regex, install_config.url.v)
    THEN SomeMode("Fosshub", <<>>)
    ELSE IF install_config.url.some /\ is_match(sourceforge_regex, install_config.url.v)
    THEN SomeMode("Sourceforge", <<>>)
    ELSE IF ~m.autoupdate.some
    THEN PanicMode("called Option::unwrap() on a None value")
    ELSE from_autoupdate_config(
             merge_default_autoupdate(m.autoupdate.v.architecture,
                                      m.autoupdate.v.default_config))

(***************************************************************************)
(* URLs and the substitution map (url::Url, hash::url_ext,                 *)
(* hash::substitutions)                                                    *)
(***************************************************************************)
\* Url::parse: a URL without a scheme is refused (RelativeUrlWithoutBase)
Url_parse(s) ==
    IF is_match(<<Bol, Plus(Class.letter, "")>> \o Lit(<<":","/","/">>), s)
    THEN [ok |-> TRUE, v |-> s]
    ELSE [ok |-> FALSE, v |-> <<>>]

\* the position of the last c in s, 0 when there is none
LastIndex(s, c) ==
    IF \E i \in 1..Len(s) : s[i] = c
    THEN CHOOSE i \in 1..Len(s) : s[i] = c /\ \A j \in (i + 1)..Len(s) : s[j] # c
    ELSE 0

\* UrlExt::remote_filename: the last path segment
remote_filename(u) == SubSeq(u, LastIndex(u, "/") + 1, Len(u))

\* UrlExt::strip_fragment
strip_fragment(u) ==
    IF \E i \in 1..Len(u) : u[i] = "#"
    THEN SubSeq(u, 1, (CHOOSE i \in 1..Len(u) : u[i] = "#" /\ \A j \in 1..(i - 1) : u[j] # "#") - 1)
    ELSE u

\* UrlExt::strip_filename: the path without its last segment
strip_filename(u) == SubSeq(u, 1, LastIndex(u, "/"))

\* SubstitutionMap::new, append_version, append_url (hash.rs:283-288)
SubstitutionMap(version, parsed_url) ==
    [version |-> Entry(version, <<>>),
     url |-> Entry(parsed_url, <<>>),
     basename |-> Entry(remote_filename(parsed_url), <<>>)]

PlaceholderNames ==
    [version |-> <<"v","e","r","s","i","o","n">>,
     url |-> <<"u","r","l">>,
     basename |-> <<"b","a","s","e","n","a","m","e">>]

\* Substitute::into_substituted(map, false) on a string: every $name of the
\* map is replaced by its value, other text is kept
RECURSIVE into_substituted(_, _)
into_substituted(s, map) ==
    IF s = <<>> THEN <<>>
    ELSE LET hits == {n \in DOMAIN map \cap DOMAIN PlaceholderNames :
                         Head(s) = "$" /\ StartsWithAt(s, 2, PlaceholderNames[n])}
         IN IF hits = {} THEN <<Head(s)>> \o into_substituted(Tail(s), map)
            ELSE LET n == CHOOSE n \in hits :
                              \A k \in hits :
                                  Len(PlaceholderNames[k]) <= Len(PlaceholderNames[n])
                 IN map[n].text
                    \o into_substituted(SubSeq(s, Len(PlaceholderNames[n]) + 2, Len(s)), map)

\* a file name read as regex syntax (hash.rs:297-302 concatenates it
\* unescaped): a dot matches any character, a parenthesis left open does not
\* compile, a letter or digit stands for itself
regex_of_text(text) ==
    [i \in 1..Len(text) |->
        IF text[i] = "." THEN Item(Class.any, 1, 1, "")
        ELSE IF text[i] \in {"(", ")", "[", "*", "+", "?"} THEN Bad
        ELSE Item(In({text[i]}), 1, 1, "")]

\* .*?"sha256":"([a-fA-F0-9]{64})"  (hash.rs:302)
fosshub_hash_regex ==
    <<Lazy(Class.any, 0, -1, "")>> \o Lit(<<"\"","s","h","a","2","5","6","\"",":","\"">>)
    \o <<Item(Class.hex, 64, 64, "1")>> \o Lit(<<"\"">>)

\* "$basename":.*?"sha1":\s*"([a-fA-F0-9]{40})"  (hash.rs:334)
sourceforge_hash_regex ==
    Lit(<<"\"">>) \o <<Var("basename")>> \o Lit(<<"\"",":">>)
    \o <<Lazy(Class.any, 0, -1, "")>> \o Lit(<<"\"","s","h","a","1","\"",":">>)
    \o <<Star(Class.space, "")>> \o Lit(<<"\"">>)
    \o <<Item(Class.hex, 40, 40, "1")>> \o Lit(<<"\"">>)

(***************************************************************************)
(* Hash constructors (hash.rs:426-491)                                     *)
(***************************************************************************)
\* from_text with its two errors exchanged, which the code does not do
Hash_from_text_not_found_as_invalid(src, substitutions, regex) ==
    LET p == parse_text(src, substitutions, regex) IN
    IF p.kind = "Err" THEN Err("TextError")
    ELSE IF ~p.some THEN Err("InvalidHash")
    ELSE LET hash_type == HashType_try_from(p.v) IN
         IF hash_type.kind = "Err" THEN Err("NotFound")
         ELSE Ok(p.v, hash_type.hash_type)

\* Hash::from_text
Hash_from_text(src, substitutions, regex) ==
    LET p == parse_text(src, substitutions, regex) IN
    IF p.kind = "Err" THEN Err("TextError")
    ELSE IF ~p.some THEN Err("NotFound")
    ELSE LET hash_type == HashType_try_from(p.v) IN
         IF hash_type.kind = "Err" THEN hash_type
         ELSE Ok(p.v, hash_type.hash_type)

\* What an extractor whose source is a document (formats::json::parse_json,
\* formats::xml::parse_xml, formats::rdf::parse_xml) hands back: the document
\* does not parse, the extractor fails, or it returns a string
Malformed == [kind |-> "Malformed", v |-> <<>>]
ExtractFailed == [kind |-> "Failed", v |-> <<>>]
Extracted(s) == [kind |-> "Ok", v |-> s]

\* a from_json that reports a body that is no JSON as an absent hash, which
\* the code does not do
Hash_from_json_malformed_as_absent(outcome) ==
    IF outcome.kind = "Malformed" THEN Err("NotFound")
    ELSE IF outcome.kind = "Failed" THEN Err("JsonError")
    ELSE LET hash_type == HashType_try_from(outcome.v) IN
         IF hash_type.kind = "Err" THEN hash_type
         ELSE Ok(outcome.v, hash_type.hash_type)

\* Hash::from_json
Hash_from_json(outcome) ==
    IF outcome.kind = "Malformed" THEN Err("SerdeJson")
    ELSE IF outcome.kind = "Failed" THEN Err("JsonError")
    ELSE LET hash_type == HashType_try_from(outcome.v) IN
         IF hash_type.kind = "Err" THEN hash_type
         ELSE Ok(outcome.v, hash_type.hash_type)

\* Hash::find_hash_in_xml
Hash_find_hash_in_xml(outcome) ==
    IF outcome.kind # "Ok" THEN Err("XMLError")
    ELSE LET hash_type == HashType_try_from(outcome.v) IN
         IF hash_type.kind = "Err" THEN hash_type
         ELSE Ok(outcome.v, hash_type.hash_type)

\* Hash::from_rdf: HashType::try_from(&hash).unwrap_or_default()
Hash_from_rdf(outcome) ==
    IF outcome.kind # "Ok" THEN Err("RDFError")
    ELSE LET hash_type == HashType_try_from(outcome.v) IN
         Ok(outcome.v,
            IF hash_type.kind = "Err" THEN HashType_default ELSE hash_type.hash_type)

(***************************************************************************)
(* Inputs: the manifests, responses and texts the calls are made with      *)
(***************************************************************************)
Deadbeef == <<"d","e","a","d","b","e","e","f">>
DeadbeefUpper == <<"D","E","A","D","B","E","E","F">>
Hex32 == Rep(Deadbeef, 4)
Hex40 == Rep(Deadbeef, 5)
Hex64 == Rep(Deadbeef, 8)
Hex64Upper == Rep(DeadbeefUpper, 8)
Hex128 == Rep(Deadbeef, 16)

\* base64 of the 32 bytes de ad be ef ... (a SHA256 digest)
Base64Digest ==
    <<"3","q","2","+","7","9","6","t","v","u","/","e","r","b","7","v","3","q","2",
      "+","7","9","6","t","v","u","/","e","r","b","7","v","3","q","2","+","7","9",
      "6","t","v","u","8","=">>

Version == <<"1",".","2">>
FosshubUrl ==
    <<"h","t","t","p","s",":","/","/","w","w","w",".","f","o","s","s","h","u","b",
      ".","c","o","m","/","A",".","h","t","m","l","?","d","w","l","=","a",".","e",
      "x","e">>
\* a Fosshub URL whose file name has a regex metacharacter
FosshubParenUrl ==
    <<"h","t","t","p","s",":","/","/","w","w","w",".","f","o","s","s","h","u","b",
      ".","c","o","m","/","A",".","h","t","m","l","?","d","w","l","=","a","(",".",
      "e","x","e">>
SourceforgeUrl ==
    <<"h","t","t","p","s",":","/","/","d","o","w","n","l","o","a","d","s",".","s",
      "o","u","r","c","e","f","o","r","g","e",".","n","e","t","/","p","r","o","j",
      "e","c","t","/","p","/","f","/","a",".","z","i","p">>
\* a Sourceforge URL with a fragment that renames the download
SourceforgeFragmentUrl == SourceforgeUrl \o <<"#","/","d","l",".","7","z">>
\* matches the Fosshub and the Sourceforge pattern
BothUrl ==
    <<"h","t","t","p","s",":","/","/","f","o","s","s","h","u","b",".","c","o","m",
      "/","s","o","u","r","c","e","f","o","r","g","e",".","n","e","t","/","p","r",
      "o","j","e","c","t","s","/","p","/","a">>
PlainUrl ==
    <<"h","t","t","p","s",":","/","/","e","x","a","m","p","l","e",".","c","o","m",
      "/","a",".","z","i","p">>
\* no scheme: Url::parse refuses it
RelativeUrl == <<"a",".","z","i","p">>
ChecksumUrl ==
    <<"h","t","t","p","s",":","/","/","e","x","a","m","p","l","e",".","c","o","m",
      "/","$","v","e","r","s","i","o","n","/","s","u","m","s">>

\* sha256:([a-fA-F0-9]{64})
Sha256Regex ==
    Lit(<<"s","h","a","2","5","6",":">>) \o <<Item(Class.hex, 64, 64, "1")>>
\* md5">([A-Fa-f\d]{32})   (text.rs:169)
Md5Regex == Lit(<<"m","d","5","\"",">">>) \o <<Item(Class.hex, 32, 32, "1")>>
\* $base64
Base64Template == <<Var("base64")>>
\* $sha256
Sha256Template == <<Var("sha256")>>
JsonPath == <<"$",".","h","a","s","h">>
JpPath == <<"$",".","s","h","a">>
XPath == <<"/","/","h","a","s","h">>

InstallUrls ==
    {FosshubUrl, FosshubParenUrl, SourceforgeUrl, SourceforgeFragmentUrl, BothUrl,
     PlainUrl, RelativeUrl}
OptionalInstallUrls == {None} \cup {Some(u) : u \in InstallUrls}

HashExtractions ==
    {HashCfg("HashExtraction", u, mode, regex, find, jsonpath, jp, xpath) :
        u \in {None, Some(ChecksumUrl)},
        mode \in {""} \cup ManifestHashMode,
        regex \in {None, Some(Sha256Regex)},
        find \in {None, Some(Base64Template)},
        jsonpath \in {None, Some(JsonPath)},
        jp \in {None, Some(JpPath)},
        xpath \in {None, Some(XPath)}}
    \cup {HashCfg("HashExtraction", Some(RelativeUrl), "", None, None, None, None, None)}

HashConfigs == HashExtractions \cup {NoHash, HashUrlString(ChecksumUrl), HashArray}

Autoupdates ==
    {None} \cup {Some([default_config |-> [hash |-> h], architecture |-> None]) :
                    h \in HashConfigs}

\* manifests without architecture-specific sections
PlainManifests ==
    {[version |-> Version, install_config |-> [url |-> u], architecture |-> None,
      autoupdate |-> a] : u \in OptionalInstallUrls, a \in Autoupdates}

XpathOnly == HashCfg("HashExtraction", Some(ChecksumUrl), "", None, None, None, None, Some(XPath))
RegexOnly == HashCfg("HashExtraction", Some(ChecksumUrl), "", Some(Sha256Regex), None, None, None, None)

\* manifests with architecture-specific sections, merged with the defaults
ArchManifests ==
    {[version |-> Version, install_config |-> [url |-> u],
      architecture |-> Some([url |-> au]),
      autoupdate |-> Some([default_config |-> [hash |-> h],
                           architecture |-> Some([hash |-> ah])])] :
        u \in {None, Some(PlainUrl)}, au \in {None, Some(FosshubUrl), Some(PlainUrl)},
        h \in {NoHash, XpathOnly}, ah \in {NoHash, RegexOnly}}

Manifests == PlainManifests \cup ArchManifests

\* the manifests get_for_app is called with: every autoupdate section with an
\* install URL of no vendor (or none), and with a vendor URL the sections
\* that differ in what the pipeline reads
VendorAutoupdates ==
    {None} \cup {Some([default_config |-> [hash |-> h], architecture |-> None]) :
                    h \in {NoHash, HashUrlString(ChecksumUrl), HashArray, RegexOnly, XpathOnly,
                           HashCfg("HashExtraction", Some(ChecksumUrl), "Rdf", None, None, None, None, None),
                           HashCfg("HashExtraction", None, "Download", None, None, None, None, None)}}
AppManifests ==
    {m \in PlainManifests :
        \/ m.install_config.url \in {None, Some(PlainUrl), Some(RelativeUrl)}
        \/ m.autoupdate \in VendorAutoupdates}
    \cup ArchManifests

NoManifest ==
    [version |-> <<>>, install_config |-> [url |-> None], architecture |-> None,
     autoupdate |-> None]

\* fetched bodies
OneSha256 == <<"s","h","a","2","5","6",":">> \o Hex64
TwoSha256 == OneSha256 \o <<"\n">> \o OneSha256
TwoBase64 == Base64Digest \o <<"\n">> \o Base64Digest
Bodies == {OneSha256, TwoSha256, TwoBase64, Hex40, Hex64}

StatusCodes == {200, 404}
NoResponse == [status |-> 0, body |-> <<>>]
Responses == [status : StatusCodes, body : Bodies]

\* what the document extractors hand back
ExtractorOutcomes ==
    {Malformed, ExtractFailed} \cup {Extracted(s) : s \in {<<>>, Hex32, Hex40, Hex64, Hex128, Deadbeef}}

(***************************************************************************)
(* Hash::get_for_app (hash.rs:259-387), one action per step                *)
(***************************************************************************)
NoText == [src |-> <<>>, regex |-> <<>>]
NoCompute == [data |-> <<>>, hash_type |-> ""]
NoHasher == [acc |-> 0, buf |-> <<>>, len |-> 0, fed |-> <<>>]
TextPending == [kind |-> "Pending", some |-> FALSE, v |-> <<>>, err |-> ""]
NoCall ==
    [pc |-> "idle", manifest |-> NoManifest, hash_mode |-> NoMode,
     manifest_url |-> <<>>, url |-> <<>>, source |-> NoResponse, requests |-> 0,
     result |-> Pending, parsed |-> TextPending]
NoCleanup ==
    [cache |-> FALSE, dry_run |-> FALSE, name |-> None, current |-> <<>>,
     dirs |-> {}, files |-> {}, before |-> [dirs |-> {}, files |-> {}],
     old_versions |-> {}, cache_entries |-> {}, exit |-> ""]
NoDownload ==
    [no_hash_check |-> FALSE, results |-> <<>>, next |-> 0,
     reported |-> {}, ticked |-> {}, exit |-> ""]

Idle ==
    /\ pc = "idle"
    /\ manifest = NoManifest
    /\ hash_mode = NoMode
    /\ manifest_url = <<>>
    /\ url = <<>>
    /\ source = NoResponse
    /\ requests = 0
    /\ result = Pending
    /\ value = <<>>
    /\ text_in = NoText
    /\ parsed = TextPending
    /\ compute_in = NoCompute
    /\ reader = <<>>
    /\ hasher = NoHasher
    /\ download = NoDownload
    /\ suspended = NoCall
    /\ cleanup = NoCleanup

Init == Idle

\* the call returns e
Fail(e) ==
    /\ result' = Err(e)
    /\ pc' = "done"
    /\ UNCHANGED <<manifest, hash_mode, manifest_url, url, source, requests,
                   value, text_in, parsed,
                   compute_in, reader, hasher, download, suspended, cleanup>>

\* a caller invokes Hash::get_for_app(manifest)
GetForApp ==
    /\ pc = "idle"
    /\ \E m \in AppManifests : manifest' = m
    /\ pc' = "autoupdate_config"
    /\ UNCHANGED <<hash_mode, manifest_url, url, source, requests, result,
                   value, text_in, parsed,
                   compute_in, reader, hasher, download, suspended, cleanup>>

\* hash.rs:260-270
AutoupdateConfig ==
    /\ pc = "autoupdate_config"
    /\ IF ~manifest.autoupdate.some
       THEN Fail("MissingAutoupdateConfig")
       ELSE /\ pc' = "hash_mode"
            /\ UNCHANGED <<manifest, hash_mode, manifest_url, url, source,
                           requests, result, value, text_in, parsed,
                   compute_in, reader, hasher, download, suspended, cleanup>>

\* let autoupdate_config (hash.rs:260-270), once the section is known to exist
autoupdate_config ==
    merge_default_autoupdate(manifest.autoupdate.v.architecture,
                             manifest.autoupdate.v.default_config)

\* hash.rs:272-273
ResolveHashMode ==
    /\ pc = "hash_mode"
    /\ LET mode == from_manifest(manifest) IN
       CASE mode.kind = "None" -> Fail("MissingHashExtraction")
         [] mode.kind = "Panic" ->
              /\ result' = Panic(mode.m)
              /\ pc' = "done"
              /\ UNCHANGED <<manifest, hash_mode, manifest_url, url, source,
                             requests, value, text_in, parsed,
                   compute_in, reader, hasher, download, suspended, cleanup>>
         [] OTHER ->
              /\ hash_mode' = mode
              /\ pc' = "manifest_url"
              /\ UNCHANGED <<manifest, manifest_url, url, source, requests,
                             result, value, text_in, parsed,
                   compute_in, reader, hasher, download, suspended, cleanup>>

\* hash.rs:275-281
ResolveManifestUrl ==
    /\ pc = "manifest_url"
    /\ LET install_url == merge_default_install(manifest).url IN
       IF ~install_url.some THEN Fail("UrlNotFound")
       ELSE IF ~Url_parse(install_url.v).ok THEN Fail("InvalidUrl")
       ELSE /\ manifest_url' = Url_parse(install_url.v).v
            /\ pc' = "url"
            /\ UNCHANGED <<manifest, hash_mode, url, source, requests, result,
                           value, text_in, parsed,
                   compute_in, reader, hasher, download, suspended, cleanup>>

\* let submap (hash.rs:283-288)
submap == SubstitutionMap(manifest.version, manifest_url)

\* the step to the request, with the URL to fetch and the mode to go on with
GoSend(u, mode) ==
    /\ url' = u
    /\ hash_mode' = mode
    /\ pc' = "send"
    /\ UNCHANGED <<manifest, manifest_url, source, requests, result, value,
                   text_in, parsed,
                   compute_in, reader, hasher, download, suspended, cleanup>>

\* a Fosshub branch that fetches the install URL also when the pattern found
\* nothing in it, which the code does not do
FosshubUrlAndRegex_fetching_unmatched ==
    LET matches == captures(fosshub_regex, manifest_url) IN
    IF ~matches.ok THEN GoSend(manifest_url, hash_mode)
    ELSE GoSend(manifest_url,
                SomeMode("Extract",
                         regex_of_text(CapName(matches, "filename")) \o fosshub_hash_regex))

\* hash.rs:292-308
FosshubUrlAndRegex ==
    LET matches == captures(fosshub_regex, manifest_url) IN
    IF ~matches.ok THEN Fail("MissingFosshubCaptures")
    ELSE GoSend(manifest_url,
                SomeMode("Extract",
                         regex_of_text(CapName(matches, "filename")) \o fosshub_hash_regex))

\* a Sourceforge branch that goes on in the mode it came with, which the code
\* does not do
SourceforgeUrlAndRegex_keeping_mode ==
    LET matches == captures(sourceforge_regex, manifest_url) IN
    IF ~matches.ok THEN Fail("MissingSourceforgeCaptures")
    ELSE LET url_string ==
                 <<"h","t","t","p","s",":","/","/","s","o","u","r","c","e","f","o",
                   "r","g","e",".","n","e","t","/","p","r","o","j","e","c","t","s","/">>
                 \o CapName(matches, "project") \o <<"/","f","i","l","e","s","/">>
                 \o CapName(matches, "file")
             parsed_url == Url_parse(url_string)
         IN IF ~parsed_url.ok THEN Fail("InvalidUrl")
            ELSE GoSend(strip_filename(strip_fragment(parsed_url.v)), hash_mode)

\* hash.rs:309-337
SourceforgeUrlAndRegex ==
    LET matches == captures(sourceforge_regex, manifest_url) IN
    IF ~matches.ok THEN Fail("MissingSourceforgeCaptures")
    ELSE LET url_string ==
                 <<"h","t","t","p","s",":","/","/","s","o","u","r","c","e","f","o",
                   "r","g","e",".","n","e","t","/","p","r","o","j","e","c","t","s","/">>
                 \o CapName(matches, "project") \o <<"/","f","i","l","e","s","/">>
                 \o CapName(matches, "file")
             parsed_url == Url_parse(url_string)
         IN IF ~parsed_url.ok THEN Fail("InvalidUrl")
            ELSE GoSend(strip_filename(strip_fragment(parsed_url.v)),
                        SomeMode("Extract", sourceforge_hash_regex))

\* hash.rs:346-358
HashExtractionUrl ==
    LET hash == autoupdate_config.hash IN
    IF hash.tag = "None" THEN Fail("MissingHashExtraction")
    ELSE IF ~as_object(hash).some THEN Fail("HashExtractionUrl")
    ELSE LET hash_extraction == as_object(hash).v IN
         IF ~hash_extraction.url.some THEN Fail("UrlNotFound")
         ELSE LET substituted == into_substituted(hash_extraction.url.v, submap) IN
              IF ~Url_parse(substituted).ok THEN Fail("InvalidUrl")
              ELSE GoSend(Url_parse(substituted).v, hash_mode)

\* hash.rs:290-359
ResolveUrl ==
    /\ pc = "url"
    /\ CASE hash_mode.m = "Fosshub" -> FosshubUrlAndRegex
         [] hash_mode.m = "Sourceforge" -> SourceforgeUrlAndRegex
         [] OTHER -> HashExtractionUrl

\* a request that is sent again when it failed, which the code does not do
Send_retrying ==
    /\ pc = "send"
    /\ requests' = requests + 1
    /\ \/ /\ pc' = "send"
          /\ UNCHANGED <<source, result>>
       \/ /\ \E response \in Responses : source' = response
          /\ pc' = "dispatch"
          /\ UNCHANGED result
    /\ UNCHANGED <<manifest, hash_mode, manifest_url, url, value, text_in, parsed,
                   compute_in, reader, hasher, download, suspended, cleanup>>

\* hash.rs:361: the request either fails in transport or is answered
Send ==
    /\ pc = "send"
    /\ requests' = requests + 1
    /\ \/ /\ result' = Err("HashDownloading")
          /\ pc' = "done"
          /\ UNCHANGED source
       \/ /\ \E response \in Responses : source' = response
          /\ pc' = "dispatch"
          /\ UNCHANGED result
    /\ UNCHANGED <<manifest, hash_mode, manifest_url, url, value, text_in, parsed,
                   compute_in, reader, hasher, download, suspended, cleanup>>

\* the call returns r
Return(r) ==
    /\ result' = r
    /\ pc' = "done"
    /\ UNCHANGED <<manifest, hash_mode, manifest_url, url, source, requests,
                   value, text_in, parsed,
                   compute_in, reader, hasher, download, suspended, cleanup>>

\* the call returns r, the document extractor having made outcome of the body
ReturnExtracted(outcome, r) ==
    /\ result' = r
    /\ parsed' = outcome
    /\ pc' = "done"
    /\ UNCHANGED <<manifest, hash_mode, manifest_url, url, source, requests,
                   value, text_in, compute_in, reader, hasher, download, suspended, cleanup>>

\* hash.rs:363-386
Dispatch ==
    /\ pc = "dispatch"
    /\ CASE hash_mode.m = "HashUrl" -> Return(Ok(source.body, HashType_default))
         [] hash_mode.m = "Download" -> Return(Panic("todo: Download and compute hashes"))
         [] hash_mode.m = "Extract" ->
              Return(Hash_from_text(source.body, submap, hash_mode.arg))
         [] hash_mode.m = "Xpath" ->
              \E outcome \in ExtractorOutcomes :
                 ReturnExtracted(outcome, Hash_find_hash_in_xml(outcome))
         [] hash_mode.m = "Json" ->
              \E outcome \in ExtractorOutcomes :
                 ReturnExtracted(outcome, Hash_from_json(outcome))
         [] hash_mode.m = "Rdf" ->
              \E outcome \in ExtractorOutcomes :
                 ReturnExtracted(outcome, Hash_from_rdf(outcome))
         [] OTHER -> Return(Panic("unreachable"))

\* a caller invokes HashMode::from_manifest(manifest) by itself
FromManifest ==
    /\ pc = "idle"
    /\ \E m \in Manifests :
          /\ manifest' = m
          /\ hash_mode' = from_manifest(m)
    /\ pc' = "from_manifest_done"
    /\ UNCHANGED <<manifest_url, url, source, requests, result, value, text_in, parsed,
                   compute_in, reader, hasher, download, suspended, cleanup>>

\* a caller invokes HashMode::from_autoupdate_config on the merged
\* autoupdate config of a manifest
FromAutoupdateConfig ==
    /\ pc = "idle"
    /\ \E m \in Manifests :
          /\ m.autoupdate.some
          /\ manifest' = m
          /\ hash_mode' = from_autoupdate_config(
                               merge_default_autoupdate(m.autoupdate.v.architecture,
                                                        m.autoupdate.v.default_config))
    /\ pc' = "from_autoupdate_config_done"
    /\ UNCHANGED <<manifest_url, url, source, requests, result, value, text_in, parsed,
                   compute_in, reader, hasher, download, suspended, cleanup>>

\* the caller takes the result; everything of the call is dropped
Finish ==
    /\ pc \in {"done", "from_manifest_done", "from_autoupdate_config_done"}
    /\ pc' = "idle"
    /\ manifest' = NoManifest
    /\ hash_mode' = NoMode
    /\ manifest_url' = <<>>
    /\ url' = <<>>
    /\ source' = NoResponse
    /\ requests' = 0
    /\ result' = Pending
    /\ parsed' = TextPending
    /\ UNCHANGED <<value, text_in, compute_in, reader, hasher, download, suspended, cleanup>>

Next ==
    \/ GetForApp
    \/ AutoupdateConfig
    \/ ResolveHashMode
    \/ ResolveManifestUrl
    \/ ResolveUrl
    \/ Send
    \/ Dispatch
    \/ FromManifest
    \/ FromAutoupdateConfig
    \/ Finish

Spec == Init /\ [][Next]_vars

(***************************************************************************)
(* HashType::try_from by itself, on strings of every length up to MaxLen   *)
(***************************************************************************)
MaxLen == 130

\* strings of hex and of non-hex characters: only the length is read
TryFromInputs == {Rep(<<c>>, n) : c \in {"a", "g"}, n \in 0..MaxLen}

InitTryFrom ==
    /\ pc = "try_from"
    /\ value \in TryFromInputs
    /\ manifest = NoManifest
    /\ hash_mode = NoMode
    /\ manifest_url = <<>>
    /\ url = <<>>
    /\ source = NoResponse
    /\ requests = 0
    /\ result = Pending
    /\ text_in = NoText
    /\ parsed = TextPending
    /\ compute_in = NoCompute
    /\ reader = <<>>
    /\ hasher = NoHasher
    /\ download = NoDownload
    /\ suspended = NoCall
    /\ cleanup = NoCleanup

\* a caller invokes HashType::try_from(&value)
TryFrom ==
    /\ pc = "try_from"
    /\ result' = HashType_try_from(value)
    /\ pc' = "try_from_done"
    /\ UNCHANGED <<manifest, hash_mode, manifest_url, url, source, requests,
                   value, text_in, parsed,
                   compute_in, reader, hasher, download, suspended, cleanup>>

NextTryFrom == TryFrom

SpecTryFrom == InitTryFrom /\ [][NextTryFrom]_vars

(***************************************************************************)
(* The text extractor and Hash::from_text by themselves                    *)
(***************************************************************************)
TwoHex64 == Hex64 \o <<"\n">> \o Hex64
UpperSha256 == <<"s","h","a","2","5","6",":">> \o Hex64Upper
TwoUpperSha256 == UpperSha256 \o <<"\n">> \o UpperSha256

\* <hash type="sha256">HEX, as a metalink file has it
MetalinkOnce ==
    <<"<","h","a","s","h"," ","t","y","p","e","=","\"","s","h","a","2","5","6","\"",">">>
    \o Hex64
MetalinkTwice == MetalinkOnce \o <<"\n">> \o MetalinkOnce
\* HEX and the basename of PlainUrl on one line, as a checksum file has it,
\* and the same with a grave accent before the name
FilenameSum == Hex64 \o <<" ","a",".","z","i","p">>
FilenameTick == Hex64 \o <<" ",Backtick,"a",".","z","i","p">>
TwoFilenameTick == FilenameTick \o <<"\n">> \o FilenameTick

\* base64 of the 32 bytes 0a 0b 0c 0d ..., a digest with bytes below 0x10
Base64LowDigest ==
    <<"C","g","s","M","D","Q","o","L","D","A","0","K","C","w","w","N","C","g","s","M","D","Q","o","L","D","A","0","K","C","w","w","N","C","g","s","M","D","Q","o","L","D","A","0","=">>
TwoBase64Low == Base64LowDigest \o <<"\n">> \o Base64LowDigest

\* 36 hex characters: base64 by its alphabet, hex, and of no digest's length
Hex36 == Rep(Deadbeef, 4) \o <<"d","e","a","d">>
TwoHex36 == Hex36 \o <<"\n">> \o Hex36
\* 24 characters of the base64 alphabet that the decoder refuses: the last
\* symbol before the padding carries bits that belong to no byte
BadPadding == Rep(<<"A">>, 21) \o <<"R","=","=">>
TwoBadPadding == BadPadding \o <<"\n">> \o BadPadding

TextSources ==
    {OneSha256, TwoSha256, UpperSha256, TwoUpperSha256, TwoBase64, Hex40, Hex64, TwoHex64,
     MetalinkOnce, MetalinkTwice, FilenameSum, FilenameTick, TwoFilenameTick,
     TwoBase64Low, TwoHex36, TwoBadPadding}
TextRegexes == {<<>>, Sha256Regex, Md5Regex, Base64Template, Sha256Template, <<Bad>>}

\* the substitutions get_for_app builds for Version and PlainUrl
TextSubmap == SubstitutionMap(Version, PlainUrl)

InitText ==
    /\ pc = "text"
    /\ text_in \in [src : TextSources, regex : TextRegexes]
    /\ manifest = NoManifest
    /\ hash_mode = NoMode
    /\ manifest_url = <<>>
    /\ url = <<>>
    /\ source = NoResponse
    /\ requests = 0
    /\ result = Pending
    /\ value = <<>>
    /\ parsed = TextPending
    /\ compute_in = NoCompute
    /\ reader = <<>>
    /\ hasher = NoHasher
    /\ download = NoDownload
    /\ suspended = NoCall
    /\ cleanup = NoCleanup

\* a caller invokes parse_text(source, substitutions, regex)
ParseText ==
    /\ pc = "text"
    /\ parsed' = parse_text(text_in.src, TextSubmap, text_in.regex)
    /\ pc' = "parsed"
    /\ UNCHANGED <<manifest, hash_mode, manifest_url, url, source, requests,
                   result, value, text_in,
                   compute_in, reader, hasher, download, suspended, cleanup>>

\* a caller invokes Hash::from_text(source, substitutions, regex) on the same
\* input
FromText ==
    /\ pc = "parsed"
    /\ result' = Hash_from_text(text_in.src, TextSubmap, text_in.regex)
    /\ pc' = "text_done"
    /\ UNCHANGED <<manifest, hash_mode, manifest_url, url, source, requests,
                   value, text_in, parsed,
                   compute_in, reader, hasher, download, suspended, cleanup>>

NextText ==
    \/ ParseText
    \/ FromText

SpecText == InitText /\ [][NextText]_vars

(***************************************************************************)
(* Properties                                                              *)
(***************************************************************************)
\* the lengths of a hex digest that name an algorithm, and the algorithm
HashLengths == {32, 40, 64, 128}
AlgorithmOfLength(n) ==
    CASE n = 32 -> "MD5"
      [] n = 40 -> "SHA1"
      [] n = 64 -> "SHA256"
      [] n = 128 -> "SHA512"
      [] OTHER -> ""

\* the effective install URL of the manifest of the call, and what it matches
EffectiveUrl == merge_default_install(manifest).url
MatchesFosshub == EffectiveUrl.some /\ is_match(fosshub_regex, EffectiveUrl.v)
MatchesSourceforge == EffectiveUrl.some /\ is_match(sourceforge_regex, EffectiveUrl.v)

\* the hash field of the merged autoupdate config of the manifest of the call
MergedHash ==
    merge_default_autoupdate(manifest.autoupdate.v.architecture,
                             manifest.autoupdate.v.default_config).hash

\* the mode tags that decide the mode by themselves (hash.rs:204-208)
DecidingTags == {"Download", "Fosshub", "Sourceforge", "Metalink", "Rdf"}

\* C1: every Hash that get_for_app hands back has a hex string of length
\* 32, 40, 64 or 128 and the hash_type that this length maps to.
C1_EveryHashHasAValidLength ==
    result.kind = "Ok" =>
        /\ Len(result.hash) \in HashLengths
        /\ result.hash_type = AlgorithmOfLength(Len(result.hash))

\* C2: HashType::try_from maps length 32 to MD5, 40 to SHA1, 64 to SHA256 and
\* 128 to SHA512, and returns InvalidHash for every other length, 0 included.
C2_TryFromByLength ==
    pc = "try_from_done" =>
        IF Len(value) \in HashLengths
        THEN result = Ok(<<>>, AlgorithmOfLength(Len(value)))
        ELSE result = Err("InvalidHash")

C2_Witness ==
    /\ pc = "try_from_done"
    /\ Len(value) = 40
    /\ result = Ok(<<>>, "SHA1")

\* C3: with an autoupdate section whose merged config has no hash field and
\* an install URL of neither vendor, from_manifest returns no mode and
\* get_for_app returns Err(MissingHashExtraction) without a request.
C3_NoHashFieldIsMissingHashExtraction ==
    (/\ manifest.autoupdate.some
     /\ ~MatchesFosshub
     /\ ~MatchesSourceforge
     /\ MergedHash.tag = "None") =>
        /\ pc = "from_manifest_done" => hash_mode = NoMode
        /\ pc = "done" => result = Err("MissingHashExtraction") /\ requests = 0

C3_Witness ==
    /\ pc = "done"
    /\ manifest.autoupdate.some
    /\ EffectiveUrl = Some(PlainUrl)
    /\ MergedHash.tag = "None"
    /\ result = Err("MissingHashExtraction")

\* C4: when the effective install URL matches the Fosshub pattern
\* from_manifest returns Fosshub, and when it matches the Sourceforge pattern
\* and not the Fosshub one it returns Sourceforge, whatever the autoupdate
\* section holds (nothing, an extraction object, another mode tag).
C4_VendorUrlDecides ==
    pc = "from_manifest_done" =>
        /\ MatchesFosshub => hash_mode = SomeMode("Fosshub", <<>>)
        /\ (~MatchesFosshub /\ MatchesSourceforge) =>
               hash_mode = SomeMode("Sourceforge", <<>>)

C4_Witness ==
    /\ pc = "from_manifest_done"
    /\ MatchesSourceforge
    /\ ~MatchesFosshub
    /\ manifest.autoupdate.some
    /\ MergedHash.mode = "Rdf"
    /\ MergedHash.regex.some
    /\ hash_mode = SomeMode("Sourceforge", <<>>)

\* C5: for an extraction object a mode tag of Download, Fosshub, Sourceforge,
\* Metalink or Rdf is the resolved mode whatever fields the object has; with
\* another tag or none the object resolves as it does without the tag.
C5_ModeTagFirst ==
    (pc = "from_autoupdate_config_done" /\ MergedHash.tag = "HashExtraction") =>
        IF MergedHash.mode \in DecidingTags
        THEN hash_mode = SomeMode(MergedHash.mode, <<>>)
        ELSE /\ hash_mode.m \in {"Extract", "Json", "Xpath", "HashUrl"}
             /\ hash_mode =
                    from_autoupdate_config([hash |-> [MergedHash EXCEPT !.mode = ""]])

C5_Witness ==
    /\ pc = "from_autoupdate_config_done"
    /\ MergedHash.tag = "HashExtraction"
    /\ MergedHash.mode = "Metalink"
    /\ MergedHash.regex.some
    /\ MergedHash.jsonpath.some
    /\ hash_mode = SomeMode("Metalink", <<>>)

\* C6: for an extraction object without a deciding mode tag the first present
\* field in the order regex, find, jsonpath, jp, xpath decides: Extract,
\* Extract, Json, Json, Xpath; without any of them the mode is HashUrl.
C6_FirstFieldDecides ==
    (/\ pc = "from_autoupdate_config_done"
     /\ MergedHash.tag = "HashExtraction"
     /\ MergedHash.mode \notin DecidingTags) =>
        hash_mode =
            IF MergedHash.regex.some THEN SomeMode("Extract", MergedHash.regex.v)
            ELSE IF MergedHash.find.some THEN SomeMode("Extract", MergedHash.find.v)
            ELSE IF MergedHash.jsonpath.some THEN SomeMode("Json", MergedHash.jsonpath.v)
            ELSE IF MergedHash.jp.some THEN SomeMode("Json", MergedHash.jp.v)
            ELSE IF MergedHash.xpath.some THEN SomeMode("Xpath", MergedHash.xpath.v)
            ELSE SomeMode("HashUrl", <<>>)

C6_Witness ==
    /\ pc = "from_autoupdate_config_done"
    /\ MergedHash.tag = "HashExtraction"
    /\ MergedHash.mode = ""
    /\ ~MergedHash.regex.some
    /\ MergedHash.find.some
    /\ MergedHash.jsonpath.some
    /\ MergedHash.xpath.some
    /\ hash_mode = SomeMode("Extract", Base64Template)

\* C7: get_for_app fails with MissingAutoupdateConfig for a manifest without
\* an autoupdate section, and with UrlNotFound for a manifest with an
\* autoupdate section and no effective install URL, whatever the hash config.
C7_DistinctAbsenceErrors ==
    pc = "done" =>
        /\ ~manifest.autoupdate.some => result = Err("MissingAutoupdateConfig")
        /\ (manifest.autoupdate.some /\ ~EffectiveUrl.some) =>
               result = Err("UrlNotFound")

\* C8: when the resolved mode is Download, get_for_app ends with an error
\* returned to the caller: it neither returns a Hash nor panics.
C8_DownloadRaisesAnError ==
    (pc = "done" /\ hash_mode.m = "Download") => result.kind = "Err"

\* C9: from_text returns Err(NotFound) exactly when the extractor returned no
\* hash, Err(InvalidHash) exactly when it returned a string of a length other
\* than 32, 40, 64, 128, and Ok only with the algorithm of the string's length.
C9_FromTextErrors ==
    pc = "text_done" =>
        /\ result = Err("NotFound") <=> (parsed.kind = "Ok" /\ ~parsed.some)
        /\ result = Err("InvalidHash") <=>
               (parsed.kind = "Ok" /\ parsed.some /\ Len(parsed.v) \notin HashLengths)
        /\ result.kind = "Ok" =>
               /\ parsed.kind = "Ok" /\ parsed.some
               /\ result = Ok(parsed.v, AlgorithmOfLength(Len(parsed.v)))
        /\ result.kind \in {"Ok", "Err"}

C9_Witness ==
    /\ pc = "text_done"
    /\ parsed.kind = "Ok"
    /\ parsed.some
    /\ Len(parsed.v) \notin HashLengths
    /\ result = Err("InvalidHash")

\* C10: when the regex sha256:([a-fA-F0-9]{64}) matches the source, the text
\* extractor returns the hex its group captured, lower-cased.
C10_CapturedHexReturned ==
    (/\ pc \in {"parsed", "text_done"}
     /\ text_in.regex = Sha256Regex
     /\ is_match(Sha256Regex, text_in.src)) =>
        parsed = TextOk(Some(to_lowercase(CapName(captures(Sha256Regex, text_in.src), "1"))))

\* C1, the state that breaks it: in mode HashUrl the body of the response is
\* handed back as a SHA256 hash whatever its length.
C1_Witness ==
    /\ pc = "done"
    /\ hash_mode.m = "HashUrl"
    /\ source.body = Hex40
    /\ result = Ok(Hex40, "SHA256")

\* C7, the state that breaks it: an autoupdate section without a hash field
\* and no install URL ends in MissingHashExtraction.
C7_Witness ==
    /\ pc = "done"
    /\ manifest.autoupdate.some
    /\ ~EffectiveUrl.some
    /\ MergedHash.tag = "None"
    /\ result = Err("MissingHashExtraction")

\* C8, the state that breaks it: an extraction object tagged download, its
\* URL fetched, and the call panics.
C8_Witness ==
    /\ pc = "done"
    /\ hash_mode.m = "Download"
    /\ MergedHash.tag = "HashExtraction"
    /\ requests = 1
    /\ result = Panic("todo: Download and compute hashes")

\* C10, the state that breaks it: the regex matches the source once and the
\* extractor returns no hash.
C10_Witness ==
    /\ pc = "parsed"
    /\ text_in = [src |-> OneSha256, regex |-> Sha256Regex]
    /\ is_match(Sha256Regex, OneSha256)
    /\ parsed = TextOk(None)

\* the matches of the three patterns of parse_text on the source of the call
PrimaryMatches == find_iter(substituted_regex(text_in.regex, TextSubmap), text_in.src)
FilenameMatches ==
    find_iter(substitute(filename_regex_template, TextSubmap, TRUE), text_in.src)
MetalinkMatches == find_iter(metalink_regex, text_in.src)

\* C11: when the primary regex gives no second match, the extractor returns
\* the hex of the file-name pattern's match if there is one, else the hex of
\* the metalink pattern's match if there is one, else no hash.
C11_FallbackOrder ==
    (/\ pc = "parsed"
     /\ regex_new(substituted_regex(text_in.regex, TextSubmap))
     /\ Len(PrimaryMatches) < 2) =>
        parsed =
            IF FilenameMatches # <<>>
            THEN TextOk(Some(to_lowercase(CapName(FilenameMatches[1], "1"))))
            ELSE IF MetalinkMatches # <<>>
            THEN TextOk(Some(to_lowercase(CapName(MetalinkMatches[1], "1"))))
            ELSE TextOk(None)

\* C11, the state that breaks it: the metalink pattern matches the source
\* once, the primary regex not at all, and the extractor returns no hash.
C11_Witness ==
    /\ pc = "parsed"
    /\ text_in = [src |-> MetalinkOnce, regex |-> Sha256Regex]
    /\ PrimaryMatches = <<>>
    /\ Len(MetalinkMatches) = 1
    /\ parsed = TextOk(None)

\* the candidate of the base64 branch: the second match of the primary regex
\* without its spaces (text.rs:88-94)
SecondMatch ==
    strip_spaces(SubSeq(text_in.src, PrimaryMatches[2].start, PrimaryMatches[2].end - 1))

\* the hex of bytes with two digits for every byte
TwoDigitHex(bytes) ==
    [i \in 1..(2 * Len(bytes)) |->
        IF i % 2 = 1 THEN HexDigitSeq[(bytes[(i + 1) \div 2] \div 16) + 1]
        ELSE HexDigitSeq[(bytes[i \div 2] % 16) + 1]]

\* C12: when the candidate is base64 (and not hex) and decodes, the extractor
\* returns the hex of the decoded bytes with two digits for every byte.
C12_TwoDigitsPerByte ==
    (/\ pc = "parsed"
     /\ regex_new(substituted_regex(text_in.regex, TextSubmap))
     /\ Len(PrimaryMatches) >= 2
     /\ base64_regex_is_match(SecondMatch)
     /\ ~is_match(invalid_base64, SecondMatch)
     /\ base64_decode(SecondMatch).ok) =>
        parsed = TextOk(Some(TwoDigitHex(base64_decode(SecondMatch).bytes)))

\* C12, the state that breaks it: the base64 of a 32-byte digest whose bytes
\* are below 0x10 comes back as 32 hex characters.
C12_Witness ==
    /\ pc = "parsed"
    /\ text_in = [src |-> TwoBase64Low, regex |-> Base64Template]
    /\ SecondMatch = Base64LowDigest
    /\ Len(base64_decode(SecondMatch).bytes) = 32
    /\ parsed.some
    /\ Len(parsed.v) = 32

\* C13: a candidate is base64-decoded exactly when it matches the padded
\* base64 pattern and is either not made of hex characters only or 32, 40, 64
\* or 128 long; then the extractor returns the hex of the decoded bytes (the
\* candidate itself when the decoder refuses it), and no hash otherwise.
C13_DecodeHeuristic ==
    (/\ pc = "parsed"
     /\ regex_new(substituted_regex(text_in.regex, TextSubmap))
     /\ Len(PrimaryMatches) >= 2) =>
        IF /\ base64_regex_is_match(SecondMatch)
           /\ \/ \E i \in 1..Len(SecondMatch) : ~InClass(SecondMatch[i], Class.hex)
              \/ Len(SecondMatch) \in HashLengths
        THEN parsed = TextOk(Some(to_lowercase(
                          IF base64_decode(SecondMatch).ok
                          THEN hex_of_bytes(base64_decode(SecondMatch).bytes)
                          ELSE SecondMatch)))
        ELSE parsed = TextOk(None)

\* a candidate of 64 hex characters is decoded as base64
C13_Witness ==
    /\ pc = "parsed"
    /\ text_in = [src |-> TwoHex64, regex |-> Sha256Template]
    /\ SecondMatch = Hex64
    /\ base64_decode(SecondMatch).ok
    /\ parsed = TextOk(Some(hex_of_bytes(base64_decode(Hex64).bytes)))
    /\ parsed.v # Hex64

\* C14: for a regex that compiles after substitution the extractor returns
\* Ok, with no hash when nothing matched; it returns Err only when the regex
\* does not compile; an empty regex stands for ^\s*([a-fA-F0-9]+)\s*$.
C14_AbsenceIsNotAnError ==
    pc = "parsed" =>
        /\ regex_new(substituted_regex(text_in.regex, TextSubmap)) => parsed.kind = "Ok"
        /\ parsed.kind = "Err" =>
               /\ ~regex_new(substituted_regex(text_in.regex, TextSubmap))
               /\ parsed = TextErr("RegexError")
        /\ (/\ regex_new(substituted_regex(text_in.regex, TextSubmap))
            /\ PrimaryMatches = <<>>
            /\ FilenameMatches = <<>>
            /\ MetalinkMatches = <<>>) => parsed = TextOk(None)
        /\ text_in.regex = <<>> =>
               PrimaryMatches =
                   find_iter(<<Bol, Star(Class.space, ""), Plus(Class.hex, "1"),
                               Star(Class.space, ""), Eol>>, text_in.src)

\* the empty regex on a source that nothing matches
C14_Witness ==
    /\ pc = "parsed"
    /\ text_in = [src |-> OneSha256, regex |-> <<>>]
    /\ PrimaryMatches = <<>>
    /\ FilenameMatches = <<>>
    /\ MetalinkMatches = <<>>
    /\ parsed = TextOk(None)

(***************************************************************************)
(* parse_text with substitutions of the caller's choice                    *)
(***************************************************************************)
\* the substitutions of a caller that gives one value under a name of its
\* own and under the name of a fragment
CallerMap(v) == [version |-> Entry(v, <<>>), sha256 |-> Entry(v, <<>>)]

CallerValues ==
    {Version, <<"$","m","d","5">>, <<"a","(","b">>, Hex32}

\* $a:$b for the names of fragments, of the caller, and of neither
SubstNames == {"sha256", "md5", "version", "basename"}
SubstRegexes == {<<Var(a)>> \o Lit(<<":">>) \o <<Var(b)>> : a, b \in SubstNames}
SubstSources == {TwoSha256, Version \o <<":">> \o Hex64}

InitSubst ==
    /\ pc = "subst"
    /\ text_in \in [src : SubstSources, regex : SubstRegexes]
    /\ value \in CallerValues
    /\ manifest = NoManifest
    /\ hash_mode = NoMode
    /\ manifest_url = <<>>
    /\ url = <<>>
    /\ source = NoResponse
    /\ requests = 0
    /\ result = Pending
    /\ parsed = TextPending
    /\ compute_in = NoCompute
    /\ reader = <<>>
    /\ hasher = NoHasher
    /\ download = NoDownload
    /\ suspended = NoCall
    /\ cleanup = NoCleanup

\* a caller invokes parse_text(source, substitutions, regex) with its map
ParseTextWith ==
    /\ pc = "subst"
    /\ parsed' = parse_text(text_in.src, CallerMap(value), text_in.regex)
    /\ pc' = "subst_done"
    /\ UNCHANGED <<manifest, hash_mode, manifest_url, url, source, requests,
                   result, value, text_in,
                   compute_in, reader, hasher, download, suspended, cleanup>>

NextSubst == ParseTextWith

SpecSubst == InitSubst /\ [][NextSubst]_vars

\* C15: in the regex parse_text builds, a placeholder with the name of a
\* fragment stands for the fragment's pattern as it is, also when the caller
\* gives a value under that name; any other placeholder the caller names
\* stands for the caller's value as literal characters.
C15_FragmentsFirst ==
    pc = "subst_done" =>
        LET Piece(e) ==
                IF e.t = "var" /\ e.name \in DOMAIN RegexTemplates
                THEN RegexTemplates[e.name].items
                ELSE IF e.t = "var" /\ e.name \in DOMAIN CallerMap(value)
                THEN Lit(value)
                ELSE <<e>>
            expected ==
                Piece(text_in.regex[1]) \o Piece(text_in.regex[2]) \o Piece(text_in.regex[3])
        IN /\ substituted_regex(text_in.regex, CallerMap(value)) = expected
           /\ parsed = parse_with(text_in.src, CallerMap(value), expected)

\* $version:$sha256 with the caller's value $md5 under both names
C15_Witness ==
    /\ pc = "subst_done"
    /\ value = <<"$","m","d","5">>
    /\ text_in.regex = <<Var("version")>> \o Lit(<<":">>) \o <<Var("sha256")>>
    /\ substituted_regex(text_in.regex, CallerMap(value)) =
           Lit(value) \o Lit(<<":">>) \o <<Item(Class.hex, 64, 64, "1")>>

\* C16: a regex the pipeline builds from values of the manifest (version,
\* url, basename, the file name of a Fosshub URL) compiles whatever
\* characters the values have, so the call never ends in a regex error.
C16_ManifestValuesAreLiteral ==
    (pc \in {"send", "dispatch", "done"} /\ hash_mode.m = "Extract") =>
        /\ regex_new(substituted_regex(hash_mode.arg, submap))
        /\ result # Err("TextError")

\* C16, the state that breaks it: the file name a(.exe of a Fosshub URL is
\* read as regex syntax and the call ends in a regex error.
C16_Witness ==
    /\ pc = "done"
    /\ manifest_url = FosshubParenUrl
    /\ CapName(captures(fosshub_regex, manifest_url), "filename") = <<"a","(",".","e","x","e">>
    /\ requests = 1
    /\ result = Err("TextError")


\* ---------------------------------------------------------------------------
\* Hash::compute (hash.rs:390-424): a reader is drained chunk by chunk into a
\* digest, and the digest's bytes are written as hex.
\* ---------------------------------------------------------------------------

\* the longest stream a reader holds, and the bytes it is made of
MaxStream == 4
ByteValues == {0, 10, 255}

\* the block a digest compresses at a time (64 or 128 bytes in the digests of
\* the md5, sha1 and sha2 crates; short here so that a chunk can end inside a
\* block)
BlockSize == 2

HashTypes == {"SHA512", "SHA256", "SHA1", "MD5"}

\* the output size of each digest, in bytes
OutputSize(hash_type) ==
    CASE hash_type = "MD5" -> 16
      [] hash_type = "SHA1" -> 20
      [] hash_type = "SHA256" -> 32
      [] hash_type = "SHA512" -> 64

\* D::new(): the initial chaining value differs between the digests; fed is
\* every byte the digest has been given so far
Digest_new(hash_type) ==
    [acc |-> OutputSize(hash_type) * 1021, buf |-> <<>>, len |-> 0, fed |-> <<>>]

\* the value of one block, its bytes read as one number
RECURSIVE BlockValue(_, _)
BlockValue(block, v) ==
    IF block = <<>> THEN v
    ELSE BlockValue(Tail(block), ((v * 256) + Head(block)) % 65536)

\* the compression of one whole block into the chaining value
compress(acc, block) == (((acc + 1) * 31) + BlockValue(block, 0)) % 65536

\* every whole block of the buffer is compressed; the rest stays buffered
RECURSIVE absorb(_)
absorb(state) ==
    IF Len(state.buf) < BlockSize THEN state
    ELSE absorb([state EXCEPT
                    !.acc = compress(state.acc, SubSeq(state.buf, 1, BlockSize)),
                    !.buf = SubSeq(state.buf, BlockSize + 1, Len(state.buf))])

\* hasher.update(bytes)
Digest_update(state, bytes) ==
    absorb([state EXCEPT !.buf = state.buf \o bytes,
                         !.len = state.len + Len(bytes),
                         !.fed = state.fed \o bytes])

\* the last block: the buffered bytes, a marker, zeros
padded(buf) ==
    [i \in 1..BlockSize |->
        IF i <= Len(buf) THEN buf[i] ELSE IF i = Len(buf) + 1 THEN 128 ELSE 0]

\* hasher.finalize()[..].to_vec()
Digest_finalize(state, hash_type) ==
    LET last == (compress(state.acc, padded(state.buf)) + (7 * state.len)) % 65536
    IN [i \in 1..OutputSize(hash_type) |->
           ((last \div 256) + (i * ((last % 256) + 1))) % 256]

\* a format without the leading zero, which the code does not use here
format_02x_unpadded(byte) == format_x(byte)

\* format!("{byte:02x}")
format_02x(byte) ==
    <<HexDigitSeq[(byte \div 16) + 1], HexDigitSeq[(byte % 16) + 1]>>

\* for byte in hash_bytes { hash += &format!("{byte:02x}"); }
RECURSIVE Hex02Range(_, _, _)
Hex02Range(bytes, lo, hi) ==
    IF lo > hi THEN <<>>
    ELSE IF lo = hi THEN format_02x(bytes[lo])
    ELSE LET mid == (lo + hi) \div 2
         IN Hex02Range(bytes, lo, mid) \o Hex02Range(bytes, mid + 1, hi)

\* Hash { hash, hash_type } of the finished digest
Hash_of_digest(bytes, hash_type) ==
    Ok(Hex02Range(bytes, 1, Len(bytes)), hash_type)

\* a reader.consume that drops one byte more than was hashed, which the code
\* does not do
consume_one_more(rest, len) == SubSeq(rest, len + 2, Len(rest))

\* reader.consume(len)
consume(rest, len) == SubSeq(rest, len + 1, Len(rest))

\* a reader: the bytes it still holds and the fill_buf calls that gave bytes
Reader(rest, reads) == [rest |-> rest, reads |-> reads]

RECURSIVE Streams(_)
Streams(n) ==
    IF n = 0 THEN {<<>>}
    ELSE Streams(n - 1) \cup
         {Append(s, b) : s \in {p \in Streams(n - 1) : Len(p) = n - 1},
                         b \in ByteValues}

ComputeInputs == [data : Streams(MaxStream), hash_type : HashTypes]

InitCompute ==
    /\ pc = "compute"
    /\ manifest = NoManifest
    /\ hash_mode = NoMode
    /\ manifest_url = <<>>
    /\ url = <<>>
    /\ source = NoResponse
    /\ requests = 0
    /\ result = Pending
    /\ value = <<>>
    /\ text_in = NoText
    /\ parsed = TextPending
    /\ compute_in \in ComputeInputs
    /\ reader = Reader(compute_in.data, 0)
    /\ hasher = Digest_new(compute_in.hash_type)
    /\ download = NoDownload
    /\ suspended = NoCall
    /\ cleanup = NoCleanup

\* one turn of the loop: fill_buf gives some of the remaining bytes, they are
\* hashed, and as many are consumed
FillBuf ==
    /\ pc = "compute"
    /\ reader.rest # <<>>
    /\ \E len \in 1..Len(reader.rest) :
          /\ hasher' = Digest_update(hasher, SubSeq(reader.rest, 1, len))
          /\ reader' = Reader(consume(reader.rest, len), reader.reads + 1)
    /\ UNCHANGED <<pc, manifest, hash_mode, manifest_url, url, source, requests,
                   result, value, text_in, parsed, compute_in, download, suspended, cleanup>>

\* reader.fill_buf().unwrap() on a reader that fails
FillBufFails ==
    /\ pc = "compute"
    /\ pc' = "computed"
    /\ result' = Panic("unwrap")
    /\ UNCHANGED <<manifest, hash_mode, manifest_url, url, source, requests,
                   value, text_in, parsed, compute_in, reader, hasher, download, suspended, cleanup>>

\* fill_buf gives no bytes: the loop ends, the digest is finished and written
Finalize ==
    /\ pc = "compute"
    /\ reader.rest = <<>>
    /\ pc' = "computed"
    /\ result' = Hash_of_digest(
                    Digest_finalize(hasher, compute_in.hash_type),
                    compute_in.hash_type)
    /\ UNCHANGED <<manifest, hash_mode, manifest_url, url, source, requests,
                   value, text_in, parsed, compute_in, reader, hasher, download, suspended, cleanup>>

\* the prefix Display writes before the hex (hash.rs:97-102)
Display_prefix(hash_type) ==
    CASE hash_type = "SHA512" -> <<"s","h","a","5","1","2",":">>
      [] hash_type = "SHA256" -> <<>>
      [] hash_type = "SHA1" -> <<"s","h","a","1",":">>
      [] hash_type = "MD5" -> <<"m","d","5",":">>

\* a Display that names every algorithm, SHA256 too, which the code does not do
Hash_to_string_all_prefixed(h) ==
    (IF h.hash_type = "SHA256" THEN <<"s","h","a","2","5","6",":">>
     ELSE Display_prefix(h.hash_type)) \o h.hash

\* impl Display for Hash: write!(f, "{prefix}{}", self.hash)
Hash_to_string(h) == Display_prefix(h.hash_type) \o h.hash

\* Hash::hash(): self.to_string()
Hash_hash(h) == Hash_to_string(h)

\* format!("{hash}") of the computed Hash
Display ==
    /\ pc = "computed"
    /\ result.kind = "Ok"
    /\ pc' = "displayed"
    /\ value' = Hash_to_string(result)
    /\ UNCHANGED <<manifest, hash_mode, manifest_url, url, source, requests,
                   result, text_in, parsed, compute_in, reader, hasher, download, suspended, cleanup>>

\* hash.hash() of the computed Hash
HashString ==
    /\ pc = "computed"
    /\ result.kind = "Ok"
    /\ pc' = "hash"
    /\ value' = Hash_hash(result)
    /\ UNCHANGED <<manifest, hash_mode, manifest_url, url, source, requests,
                   result, text_in, parsed, compute_in, reader, hasher, download, suspended, cleanup>>

NextCompute ==
    FillBuf \/ FillBufFails \/ Finalize \/ Display \/ HashString

SpecCompute == InitCompute /\ [][NextCompute]_vars

\* the Hash one update with the whole stream gives
HashOfWhole(data, hash_type) ==
    Hash_of_digest(
        Digest_finalize(Digest_update(Digest_new(hash_type), data), hash_type),
        hash_type)

\* C17: whatever the sizes of the chunks fill_buf delivered, the computed Hash
\* is the one that hashing the whole stream in one piece gives: it is decided
\* by the bytes and the algorithm alone.
C17_ChunkingDoesNotMatter ==
    (pc \in {"computed", "displayed", "hash"} /\ result.kind = "Ok")
        => result = HashOfWhole(compute_in.data, compute_in.hash_type)

\* a stream of full length delivered in several chunks, not all of them of one
\* byte, has been hashed
C17_Witness ==
    /\ pc = "computed"
    /\ result.kind = "Ok"
    /\ Len(compute_in.data) = MaxStream
    /\ reader.reads >= 2
    /\ reader.reads < MaxStream
    /\ Len(result.hash) = 2 * OutputSize(compute_in.hash_type)

\* C18: Display writes the algorithm's prefix and then the hex: sha512:, sha1:
\* and md5:, and nothing before the hex of a SHA256; hash() returns the same
\* string.
C18_DisplayPrefix ==
    (pc \in {"displayed", "hash"}) =>
        value = (CASE result.hash_type = "SHA512" -> <<"s","h","a","5","1","2",":">>
                   [] result.hash_type = "SHA1" -> <<"s","h","a","1",":">>
                   [] result.hash_type = "MD5" -> <<"m","d","5",":">>
                   [] result.hash_type = "SHA256" -> <<>>) \o result.hash

\* hash() has returned the bare hex of a SHA256
C18_Witness ==
    /\ pc = "hash"
    /\ result.hash_type = "SHA256"
    /\ Len(result.hash) = 64
    /\ value = result.hash


\* the HTTP statuses reqwest's StatusCode::is_success accepts
SuccessStatus(status) == status >= 200 /\ status < 300

\* C19: when the server answers with a status that is not a success,
\* get_for_app returns the error ErrorStatus, and the body of that answer is
\* neither returned as the hash nor handed to an extractor.
C19_ErrorStatusOnFailure ==
    (pc = "done" /\ source # NoResponse /\ ~SuccessStatus(source.status))
        => (result.kind = "Err" /\ result.err = "ErrorStatus")

\* a 404 answer's body has been returned as a SHA256 hash
C19_Witness ==
    /\ pc = "done"
    /\ source.status = 404
    /\ hash_mode.m = "HashUrl"
    /\ result = Ok(source.body, "SHA256")


\* the error each document constructor wraps a parse failure in
ParseErrorOf(mode) ==
    CASE mode = "Json" -> "SerdeJson"
      [] mode = "Xpath" -> "XMLError"
      [] mode = "Rdf" -> "RDFError"
      [] OTHER -> ""

\* C20: a body that is not well-formed JSON, XML or RDF makes from_json,
\* find_hash_in_xml and from_rdf return SerdeJson, XMLError and RDFError, never
\* NotFound and never a Hash; NotFound is never the answer to a malformed body.
C20_MalformedIsAParseError ==
    (pc = "done" /\ hash_mode.m \in {"Json", "Xpath", "Rdf"}) =>
        /\ parsed.kind = "Malformed" => result = Err(ParseErrorOf(hash_mode.m))
        /\ result = Err("NotFound") => parsed.kind = "Failed"

\* from_json has answered a body that is no JSON with SerdeJson
C20_Witness ==
    /\ pc = "done"
    /\ hash_mode.m = "Json"
    /\ parsed = Malformed
    /\ result = Err("SerdeJson")


\* ---------------------------------------------------------------------------
\* The download command (src/commands/app/download.rs:108-141): the download
\* tasks are joined, then every result is checked in turn.
\* ---------------------------------------------------------------------------

\* the most packages one run downloads
MaxDownloads == 3

\* what a spawned dl.download() ends as: a task that panicked (JoinError), a
\* download that failed, or a result carrying the two hashes
Panicked == [kind |-> "JoinError", actual_hash |-> <<>>, computed_hash |-> <<>>]
FailedDownload == [kind |-> "Err", actual_hash |-> <<>>, computed_hash |-> <<>>]
Downloaded(actual_hash, computed_hash) ==
    [kind |-> "Ok", actual_hash |-> actual_hash, computed_hash |-> computed_hash]

TaskOutcomes ==
    {Panicked, FailedDownload}
        \cup {Downloaded(a, c) : a \in {Hex64, Hex40}, c \in {Hex64, Hex40}}

RECURSIVE ResultLists(_)
ResultLists(n) ==
    IF n = 0 THEN {<<>>}
    ELSE ResultLists(n - 1) \cup
         {Append(s, o) : s \in {p \in ResultLists(n - 1) : Len(p) = n - 1},
                         o \in TaskOutcomes}

InitDownload ==
    /\ pc = "download"
    /\ manifest = NoManifest
    /\ hash_mode = NoMode
    /\ manifest_url = <<>>
    /\ url = <<>>
    /\ source = NoResponse
    /\ requests = 0
    /\ result = Pending
    /\ value = <<>>
    /\ text_in = NoText
    /\ parsed = TextPending
    /\ compute_in = NoCompute
    /\ reader = <<>>
    /\ hasher = NoHasher
    /\ \E flag \in BOOLEAN, results \in ResultLists(MaxDownloads) :
          download = [no_hash_check |-> flag, results |-> results, next |-> 1,
                      reported |-> {}, ticked |-> {}, exit |-> ""]
    /\ suspended = NoCall
    /\ cleanup = NoCleanup

\* a comparison that takes every pair of hashes for equal, which the code does
\* not do
hashes_always_equal(r) == r.actual_hash = r.actual_hash

\* result.actual_hash == result.computed_hash
hashes_equal(r) == r.actual_hash = r.computed_hash

\* futures::future::try_join_all(threads).await?: a task that panicked ends
\* the command before any result is looked at
JoinAll ==
    /\ pc = "download"
    /\ IF \E i \in 1..Len(download.results) : download.results[i].kind = "JoinError"
       THEN /\ pc' = "download_done"
            /\ download' = [download EXCEPT !.exit = "Err"]
       ELSE /\ pc' = "check"
            /\ UNCHANGED download
    /\ UNCHANGED <<manifest, hash_mode, manifest_url, url, source, requests,
                   result, value, text_in, parsed, compute_in, reader, hasher, suspended, cleanup>>

\* one turn of for result in results
CheckResult ==
    /\ pc = "check"
    /\ download.next <= Len(download.results)
    /\ LET r == download.results[download.next] IN
       IF r.kind = "Err"
       THEN /\ pc' = "download_done"
            /\ download' = [download EXCEPT !.exit = "Err"]
       ELSE /\ pc' = "check"
            /\ download' =
                 [download EXCEPT
                    !.next = @ + 1,
                    !.ticked = IF ~download.no_hash_check /\ hashes_equal(r)
                               THEN @ \cup {download.next} ELSE @,
                    !.reported = IF ~download.no_hash_check /\ ~hashes_equal(r)
                                 THEN @ \cup {download.next} ELSE @]
    /\ UNCHANGED <<manifest, hash_mode, manifest_url, url, source, requests,
                   result, value, text_in, parsed, compute_in, reader, hasher, suspended, cleanup>>

\* the loop is through: Ok(())
DownloadOk ==
    /\ pc = "check"
    /\ download.next > Len(download.results)
    /\ pc' = "download_done"
    /\ download' = [download EXCEPT !.exit = "Ok"]
    /\ UNCHANGED <<manifest, hash_mode, manifest_url, url, source, requests,
                   result, value, text_in, parsed, compute_in, reader, hasher, suspended, cleanup>>

NextDownload == JoinAll \/ CheckResult \/ DownloadOk

SpecDownload == InitDownload /\ [][NextDownload]_vars

\* the downloads that completed, and those of them whose two hashes differ
Completed == {i \in 1..Len(download.results) : download.results[i].kind = "Ok"}
Differing ==
    {i \in Completed :
        download.results[i].actual_hash # download.results[i].computed_hash}

\* the results the loop looks at: none when a task panicked, else those before
\* the first failed download
Looked ==
    IF \E i \in 1..Len(download.results) : download.results[i].kind = "JoinError"
    THEN {}
    ELSE {i \in 1..Len(download.results) :
            \A j \in 1..i : download.results[j].kind = "Ok"}

\* C21 as stated: with hash checking enabled, a mismatch is reported for
\* exactly the completed downloads whose hashes differ, and none of them is
\* counted as checked.
C21_EveryMismatchReported ==
    (pc = "download_done" /\ ~download.no_hash_check) =>
        /\ download.reported = Differing
        /\ download.ticked \cap Differing = {}

\* C21 amended: with hash checking enabled, a mismatch is reported for exactly
\* the differing downloads among the results the loop reaches (none when a
\* task panicked, else those before the first failed download), the equal ones
\* among them are the ones counted as checked, and the command returns Ok only
\* when it reached every result.
C21_MismatchReportedUntilFirstFailure ==
    (pc = "download_done" /\ ~download.no_hash_check) =>
        /\ download.reported = Differing \cap Looked
        /\ download.ticked = (Completed \ Differing) \cap Looked
        /\ (download.exit = "Ok") <=> (Looked = 1..Len(download.results))

\* a run of two equal downloads and a differing one has ended with one report
C21_Witness ==
    /\ pc = "download_done"
    /\ ~download.no_hash_check
    /\ download.exit = "Ok"
    /\ Len(download.results) = MaxDownloads
    /\ Cardinality(download.reported) = 1
    /\ Cardinality(download.ticked) = MaxDownloads - 1


\* ---------------------------------------------------------------------------
\* Two invocations of Hash::get_for_app running at once (hash.rs:259-387).
\* Everything an invocation reads and writes is a let binding of its own call
\* or its argument; one invocation runs while the other is held in suspended,
\* and Switch hands the processor from one to the other between any two steps.
\* ---------------------------------------------------------------------------

\* the manifests of the concurrent invocations: one for each way through the
\* pipeline
ManifestWith(u, h) ==
    [version |-> Version, install_config |-> [url |-> u], architecture |-> None,
     autoupdate |-> Some([default_config |-> [hash |-> h], architecture |-> None])]

JsonOnly ==
    HashCfg("HashExtraction", Some(ChecksumUrl), "", None, None, Some(JsonPath), None, None)

ConcurrentManifests ==
    {ManifestWith(Some(PlainUrl), HashUrlString(ChecksumUrl)),
     ManifestWith(Some(PlainUrl), JsonOnly),
     ManifestWith(Some(FosshubUrl), NoHash),
     ManifestWith(Some(SourceforgeUrl), RegexOnly),
     ManifestWith(None, RegexOnly)}

\* a get_for_app(manifest) that has just been entered
Entered(m) == [NoCall EXCEPT !.pc = "autoupdate_config", !.manifest = m]

\* locals that leave the url out, as if it were kept in one place for all
\* invocations, which the code does not do
locals_without_url ==
    [pc |-> pc, manifest |-> manifest, hash_mode |-> hash_mode,
     manifest_url |-> manifest_url, url |-> <<>>, source |-> source,
     requests |-> requests, result |-> result, parsed |-> parsed]

\* the let bindings of the running invocation and its argument
locals ==
    [pc |-> pc, manifest |-> manifest, hash_mode |-> hash_mode,
     manifest_url |-> manifest_url, url |-> url, source |-> source,
     requests |-> requests, result |-> result, parsed |-> parsed]

InitConcurrent ==
    /\ \E m \in ConcurrentManifests :
          /\ pc = Entered(m).pc
          /\ manifest = m
    /\ hash_mode = NoMode
    /\ manifest_url = <<>>
    /\ url = <<>>
    /\ source = NoResponse
    /\ requests = 0
    /\ result = Pending
    /\ value = <<>>
    /\ text_in = NoText
    /\ parsed = TextPending
    /\ compute_in = NoCompute
    /\ reader = <<>>
    /\ hasher = NoHasher
    /\ download = NoDownload
    /\ \E m \in ConcurrentManifests : suspended = Entered(m)
    /\ cleanup = NoCleanup

\* the scheduler runs the other invocation
Switch ==
    /\ suspended' = locals
    /\ pc' = suspended.pc
    /\ manifest' = suspended.manifest
    /\ hash_mode' = suspended.hash_mode
    /\ manifest_url' = suspended.manifest_url
    /\ url' = suspended.url
    /\ source' = suspended.source
    /\ requests' = suspended.requests
    /\ result' = suspended.result
    /\ parsed' = suspended.parsed
    /\ UNCHANGED <<value, text_in, compute_in, reader, hasher, download, cleanup>>

NextConcurrent ==
    \/ AutoupdateConfig
    \/ ResolveHashMode
    \/ ResolveManifestUrl
    \/ ResolveUrl
    \/ Send
    \/ Dispatch
    \/ Switch

SpecConcurrent == InitConcurrent /\ [][NextConcurrent]_vars

InstallUrlParses == EffectiveUrl.some /\ Url_parse(EffectiveUrl.v).ok

\* C23: when the mode is Fosshub or Sourceforge and the install URL, present
\* and parsed, does not match the vendor's pattern, get_for_app returns
\* MissingFosshubCaptures resp. MissingSourceforgeCaptures without having sent
\* a request.
C23_MissingCapturesBeforeFetch ==
    (pc = "done" /\ InstallUrlParses) =>
        /\ (hash_mode.m = "Fosshub" /\ ~MatchesFosshub) =>
              (result = Err("MissingFosshubCaptures") /\ requests = 0)
        /\ (hash_mode.m = "Sourceforge" /\ ~MatchesSourceforge) =>
              (result = Err("MissingSourceforgeCaptures") /\ requests = 0)

\* a manifest tagged mode = fosshub with an install URL of no vendor has been
\* answered with MissingFosshubCaptures
C23_Witness ==
    /\ pc = "done"
    /\ result = Err("MissingFosshubCaptures")
    /\ requests = 0
    /\ hash_mode.m = "Fosshub"
    /\ EffectiveUrl = Some(PlainUrl)
    /\ manifest.autoupdate.some
    /\ MergedHash.mode = "Fosshub"


\* ---------------------------------------------------------------------------
\* The cleanup command (src/commands/app/cleanup.rs:126-225, 262-294): old
\* cache entries and old version directories of one app are removed.
\* ---------------------------------------------------------------------------

\* the position of the first c in s at or after i, 0 when there is none
RECURSIVE IndexFrom(_, _, _)
IndexFrom(s, c, i) ==
    IF i > Len(s) THEN 0 ELSE IF s[i] = c THEN i ELSE IndexFrom(s, c, i + 1)

\* the position of the last c in s at or before i, 0 when there is none
RECURSIVE IndexBefore(_, _, _)
IndexBefore(s, c, i) ==
    IF i < 1 THEN 0 ELSE IF s[i] = c THEN i ELSE IndexBefore(s, c, i - 1)

\* Path::file_stem of a file name: the name up to its last dot, the whole name
\* when it has no dot or only a leading one
file_stem(name) ==
    LET dot == IndexBefore(name, ".", Len(name))
    IN IF dot <= 1 THEN name ELSE SubSeq(name, 1, dot - 1)

\* str::split('#')
RECURSIVE split_hash(_)
split_hash(s) ==
    LET at == IndexFrom(s, "#", 1)
    IN IF at = 0 THEN <<s>>
       ELSE <<SubSeq(s, 1, at - 1)>> \o split_hash(SubSeq(s, at + 1, Len(s)))

\* CacheEntry::parse_path: name, version and hash are the first three parts
parse_path(file_name) ==
    LET parts == split_hash(file_stem(file_name))
    IN IF Len(parts) < 3 THEN [ok |-> FALSE, name |-> <<>>, version |-> <<>>]
       ELSE [ok |-> TRUE, name |-> parts[1], version |-> parts[2]]

\* a filter that takes the cache entries of every app, which the code does
\* not do
outdated_cache_entry_of_any_app(file_name, app_name, current_version) ==
    /\ parse_path(file_name).ok
    /\ parse_path(file_name).version # current_version

\* the filter of cleanup.rs:150-161
outdated_cache_entry(file_name, app_name, current_version) ==
    /\ parse_path(file_name).ok
    /\ Some(parse_path(file_name).name) = app_name
    /\ parse_path(file_name).version # current_version

\* the versions, the app and the files of the cache directory
Versions == {<<"1">>, <<"2">>, <<"3">>}
AppName == <<"a","p","p">>
CacheFiles ==
    {<<"a","p","p","#","1","#","h",".","z","i","p">>,
     <<"a","p","p","#","2","#","h",".","z","i","p">>,
     <<"o","t","h","e","r","#","2","#","h",".","z","i","p">>,
     <<"a","p","p","#","2",".","z","i","p">>}

InitCleanup ==
    /\ pc = "cleanup"
    /\ manifest = NoManifest
    /\ hash_mode = NoMode
    /\ manifest_url = <<>>
    /\ url = <<>>
    /\ source = NoResponse
    /\ requests = 0
    /\ result = Pending
    /\ value = <<>>
    /\ text_in = NoText
    /\ parsed = TextPending
    /\ compute_in = NoCompute
    /\ reader = <<>>
    /\ hasher = NoHasher
    /\ download = NoDownload
    /\ suspended = NoCall
    /\ \E cache \in BOOLEAN, dry_run \in BOOLEAN, name \in {None, Some(AppName)},
          current \in Versions, dirs \in SUBSET Versions, files \in SUBSET CacheFiles :
          cleanup = [cache |-> cache, dry_run |-> dry_run, name |-> name,
                     current |-> current, dirs |-> dirs, files |-> files,
                     before |-> [dirs |-> dirs, files |-> files],
                     old_versions |-> {}, cache_entries |-> {}, exit |-> ""]

\* cleanup_app returns r
CleanupReturns(r) ==
    /\ pc' = "cleanup_done"
    /\ cleanup' = [cleanup EXCEPT !.exit = r]

\* cleanup.rs:132-162: the handle is opened, the versions are listed and, with
\* --cache, the cache directory is read; each of them can fail
OpenHandle ==
    /\ pc = "cleanup"
    /\ \/ CleanupReturns("Ok")
       \/ CleanupReturns("Err")
       \/ /\ pc' = IF cleanup.cache THEN "cleanup_cache" ELSE "cleanup_versions"
          /\ cleanup' =
               [cleanup EXCEPT
                  !.old_versions = {v \in cleanup.dirs : v # cleanup.current},
                  !.cache_entries =
                      IF cleanup.cache
                      THEN {f \in cleanup.files :
                              outdated_cache_entry(f, cleanup.name, cleanup.current)}
                      ELSE {}]
    /\ UNCHANGED <<manifest, hash_mode, manifest_url, url, source, requests,
                   result, value, text_in, parsed, compute_in, reader, hasher,
                   download, suspended>>

\* one turn of for (path, cache_entry) in cache_entries (cleanup.rs:175-189)
RemoveCacheEntry ==
    /\ pc = "cleanup_cache"
    /\ \E f \in cleanup.cache_entries :
          IF cleanup.dry_run
          THEN /\ pc' = pc
               /\ cleanup' = [cleanup EXCEPT !.cache_entries = @ \ {f}]
          ELSE \/ /\ pc' = pc
                  /\ cleanup' = [cleanup EXCEPT !.cache_entries = @ \ {f},
                                                !.files = @ \ {f}]
               \/ CleanupReturns("Err")
    /\ UNCHANGED <<manifest, hash_mode, manifest_url, url, source, requests,
                   result, value, text_in, parsed, compute_in, reader, hasher,
                   download, suspended>>

\* the cache entries are through, or there were none (cleanup.rs:164-166, 191-197)
CacheDone ==
    /\ pc = "cleanup_cache"
    /\ cleanup.cache_entries = {}
    /\ pc' = "cleanup_versions"
    /\ UNCHANGED <<manifest, hash_mode, manifest_url, url, source, requests,
                   result, value, text_in, parsed, compute_in, reader, hasher,
                   download, suspended, cleanup>>

\* one turn of for version in old_versions (cleanup.rs:208-219)
RemoveVersion ==
    /\ pc = "cleanup_versions"
    /\ \E v \in cleanup.old_versions :
          IF cleanup.dry_run
          THEN /\ pc' = pc
               /\ cleanup' = [cleanup EXCEPT !.old_versions = @ \ {v}]
          ELSE \/ /\ pc' = pc
                  /\ cleanup' = [cleanup EXCEPT !.old_versions = @ \ {v},
                                                !.dirs = @ \ {v}]
               \/ CleanupReturns("Err")
    /\ UNCHANGED <<manifest, hash_mode, manifest_url, url, source, requests,
                   result, value, text_in, parsed, compute_in, reader, hasher,
                   download, suspended>>

\* the versions are through, or there were none: Ok(()) (cleanup.rs:197-224)
CleanupOk ==
    /\ pc = "cleanup_versions"
    /\ cleanup.old_versions = {}
    /\ CleanupReturns("Ok")
    /\ UNCHANGED <<manifest, hash_mode, manifest_url, url, source, requests,
                   result, value, text_in, parsed, compute_in, reader, hasher,
                   download, suspended>>

NextCleanup ==
    OpenHandle \/ RemoveCacheEntry \/ CacheDone \/ RemoveVersion \/ CleanupOk

SpecCleanup == InitCleanup /\ [][NextCleanup]_vars

\* what has been deleted since the command began
DeletedDirs == cleanup.before.dirs \ cleanup.dirs
DeletedFiles == cleanup.before.files \ cleanup.files

\* the name and the version a cache file carries, read off the file name
NameOfFile(f) == SubSeq(f, 1, IndexFrom(f, "#", 1) - 1)
VersionOfFile(f) ==
    SubSeq(f, IndexFrom(f, "#", 1) + 1,
           IndexFrom(f, "#", IndexFrom(f, "#", 1) + 1) - 1)

\* C24: with --dry-run nothing is deleted, whatever the other flags; without
\* it only version directories other than the current version are deleted,
\* and only cache files named name#version#hash whose name is the app's and
\* whose version is not the current one, and these only with --cache.
C24_DryRunRemovesNothing ==
    /\ cleanup.dry_run => (DeletedDirs = {} /\ DeletedFiles = {})
    /\ cleanup.current \notin DeletedDirs
    /\ ~cleanup.cache => DeletedFiles = {}
    /\ \A f \in DeletedFiles :
          /\ IndexFrom(f, "#", IndexFrom(f, "#", 1) + 1) > 0
          /\ Some(NameOfFile(f)) = cleanup.name
          /\ VersionOfFile(f) # cleanup.current

\* a run without --dry-run and with --cache has ended having deleted an old
\* version directory and an old cache file of the app, the current version's
\* directory and cache file being still there
C24_Witness ==
    /\ pc = "cleanup_done"
    /\ cleanup.exit = "Ok"
    /\ ~cleanup.dry_run
    /\ cleanup.cache
    /\ DeletedDirs # {}
    /\ DeletedFiles # {}
    /\ cleanup.current \in cleanup.dirs
    /\ \E f \in cleanup.files :
          parse_path(f).ok /\ parse_path(f).version = cleanup.current


\* the modes HashMode has (hash.rs:137-148)
HashModes ==
    {"HashUrl", "Download", "Extract", "Json", "Xpath", "Fosshub", "Sourceforge",
     "Metalink", "Rdf"}

\* C25: whatever mode the resolver returned, get_for_app ends by returning a
\* Hash or a HashError: it does not panic, and the unreachable arms of its two
\* dispatches are not reached.
C25_EveryModeIsHandled ==
    (pc = "done" /\ hash_mode.kind = "Some" /\ hash_mode.m \in HashModes)
        => result.kind \in {"Ok", "Err"}

\* a manifest tagged mode = metalink has reached the unreachable arm of the
\* dispatch after its request was answered
C25_Witness ==
    /\ pc = "done"
    /\ hash_mode.m = "Metalink"
    /\ requests = 1
    /\ result = Panic("unreachable")


\* the request has been sent or is about to be
Fetching == pc \in {"send", "dispatch"} \/ (pc = "done" /\ requests > 0)

\* https://sourceforge.net/projects/p/files/f/ : the checksum page of the
\* Sourceforge install URLs, project p and file f/a.zip
SourceforgeFilesUrl ==
    <<"h","t","t","p","s",":","/","/","s","o","u","r","c","e","f","o","r","g","e",
      ".","n","e","t","/","p","r","o","j","e","c","t","s","/","p","/","f","i","l",
      "e","s","/","f","/">>

\* C26: from the fetch onward the mode is never Fosshub or Sourceforge. For a
\* Fosshub install URL the mode is Extract and the fetched URL is the install
\* URL itself; for a Sourceforge install URL the mode is Extract and the
\* fetched URL is https://sourceforge.net/projects/{project}/files/{file}
\* without fragment and file name; the autoupdate hash.url is not fetched.
C26_VendorModeBecomesExtract ==
    Fetching =>
        /\ hash_mode.m \notin {"Fosshub", "Sourceforge"}
        /\ MatchesFosshub =>
              (hash_mode.m = "Extract" /\ url = EffectiveUrl.v)
        /\ (MatchesSourceforge /\ ~MatchesFosshub) =>
              (hash_mode.m = "Extract" /\ url = SourceforgeFilesUrl
               /\ url # ChecksumUrl)

\* the checksum page of a Sourceforge install URL with a fragment has been
\* fetched, the manifest naming another hash.url
C26_Witness ==
    /\ pc = "dispatch"
    /\ EffectiveUrl = Some(SourceforgeFragmentUrl)
    /\ manifest.autoupdate.some
    /\ MergedHash = RegexOnly
    /\ url = SourceforgeFilesUrl
    /\ hash_mode = SomeMode("Extract", sourceforge_hash_regex)


\* C27: HashMode::from_manifest returns Some(mode) or None for every manifest,
\* one without autoupdate section and one whose autoupdate hash is an array
\* included: it does not panic.
C27_FromManifestIsTotal ==
    pc = "from_manifest_done" => hash_mode.kind \in {"Some", "None"}

\* from_manifest has panicked on a manifest without autoupdate section whose
\* install URL is of no vendor
C27_Witness ==
    /\ pc = "from_manifest_done"
    /\ ~manifest.autoupdate.some
    /\ EffectiveUrl = Some(PlainUrl)
    /\ hash_mode = PanicMode("called Option::unwrap() on a None value")


\* the errors of a manifest that cannot be worked with
ConfigurationErrors ==
    {"MissingAutoupdateConfig", "MissingHashExtraction", "UrlNotFound",
     "InvalidUrl", "HashExtractionUrl", "MissingFosshubCaptures",
     "MissingSourceforgeCaptures"}

\* C28: an invocation sends at most one request. Every configuration error is
\* returned with no request sent, and a request that failed ends the
\* invocation with HashDownloading after that one request.
C28_AtMostOneRequest ==
    /\ requests \in {0, 1}
    /\ (pc = "done" /\ result.kind = "Err" /\ result.err \in ConfigurationErrors)
           => requests = 0
    /\ result = Err("HashDownloading") => (pc = "done" /\ requests = 1)

\* the one request of an invocation has failed and the invocation has ended
C28_Witness ==
    /\ pc = "done"
    /\ requests = 1
    /\ source = NoResponse
    /\ result = Err("HashDownloading")


\* the candidate of the call is a plain hexadecimal digest of valid length
CandidateIsDigest ==
    /\ regex_new(substituted_regex(text_in.regex, TextSubmap))
    /\ Len(PrimaryMatches) >= 2
    /\ Len(SecondMatch) \in HashLengths
    /\ \A i \in 1..Len(SecondMatch) : InClass(SecondMatch[i], Class.hex)

\* C29: a plain hexadecimal digest of 32, 40, 64 or 128 characters that the
\* extractor picked is returned lower-cased and otherwise unchanged: it is not
\* decoded as base64 and not dropped, so what is returned is as long as the
\* digest.
C29_HexDigestUnchanged ==
    (pc = "parsed" /\ CandidateIsDigest) =>
        /\ parsed = TextOk(Some(to_lowercase(SecondMatch)))
        /\ Len(parsed.v) = Len(SecondMatch)

\* the state that breaks it: a digest of 64 hexadecimal characters has been
\* decoded as base64, and what is returned is of another length
C29_Witness ==
    /\ pc = "parsed"
    /\ CandidateIsDigest
    /\ SecondMatch = Hex64
    /\ parsed.kind = "Ok"
    /\ parsed.some
    /\ Len(parsed.v) # 64
    /\ parsed.v = to_lowercase(hex_of_bytes(base64_decode(Hex64).bytes))


\* the thread that runs Hash::compute goes on running: as long as a step of
\* the loop can be taken, one is taken
SpecComputeFair == SpecCompute /\ WF_vars(NextCompute)

\* Hash::compute has come to its end
ComputeEnded == pc \in {"computed", "displayed", "hash"}

\* the digest has been given the bytes the reader has delivered, and they and
\* the bytes still in the reader are the stream
EveryByteOnceInOrder == hasher.fed \o reader.rest = compute_in.data

\* the returned Hash: the whole stream was hashed, the hex has two lowercase
\* digits for every byte of the digest, and its length names the algorithm
ReturnedHashIsWellFormed ==
    /\ hasher.fed = compute_in.data
    /\ Len(result.hash) = 2 * OutputSize(compute_in.hash_type)
    /\ \A i \in 1..Len(result.hash) :
          \E d \in 1..16 : result.hash[i] = HexDigitSeq[d]
    /\ HashType_try_from(result.hash) = Ok(<<>>, compute_in.hash_type)

\* C30 as stated: compute on a finite reader ends without a panic, every byte
\* having been hashed once and in order, with a hex string of two lowercase
\* digits per byte whose length names the requested algorithm.
C30_ComputeNeverPanics ==
    /\ EveryByteOnceInOrder
    /\ ComputeEnded => (result.kind = "Ok" /\ ReturnedHashIsWellFormed)

\* C30 amended: compute on a finite reader ends. As long as it runs, the bytes
\* hashed so far and the bytes left in the reader are the stream, in order.
\* When no read failed it returns a Hash as stated; a read that fails makes it
\* panic in unwrap.
C30_ComputeTerminates ==
    /\ [](EveryByteOnceInOrder)
    /\ [](ComputeEnded =>
             IF result.kind = "Ok" THEN ReturnedHashIsWellFormed
             ELSE result = Panic("unwrap"))
    /\ <>ComputeEnded

\* a stream of full length has been hashed as SHA1 in chunks of one byte
C30_Witness ==
    /\ pc = "computed"
    /\ result.kind = "Ok"
    /\ compute_in.hash_type = "SHA1"
    /\ Len(compute_in.data) = MaxStream
    /\ reader.reads = MaxStream
    /\ hasher.fed = compute_in.data
    /\ Len(result.hash) = 40

====
